---- MODULE Spec2Model ----
(***************************************************************************)
(* The IMF immutable file container engine (pkg/container, pkg/manifest,   *)
(* pkg/crypto): one container path on disk, the operations Create, Add,    *)
(* Seal, Verify, Extract, ListFiles and GetInfo run one at a time against  *)
(* it, and a second path holding a modified copy of the sealed archive.    *)
(*                                                                         *)
(* Byte strings are modelled by their structure:                           *)
(*   - a file name is a sequence of characters (so filepath.Ext, the "_n"  *)
(*     suffix and the ".enc" suffix are computed, not assumed);            *)
(*   - file contents are short sequences of bytes;                         *)
(*   - a string that holds an optional encoded value ("" or base64/hex of  *)
(*     something) and a nil-able pointer are sequences of length <= 1;     *)
(*   - SHA-256, CRC-32, Ed25519 and AES-GCM are ideal: a digest names the  *)
(*     bytes it was computed over, a signature names its signer and its    *)
(*     message, a ciphertext opens only under the key that made it.        *)
(* An archive is manifest.json followed by the other members; those are    *)
(* written in Go's map iteration order, which is unspecified and which no  *)
(* reader of the engine depends on, so they are kept as a map by name.     *)
(***************************************************************************)
EXTENDS Integers, Sequences, FiniteSets, TLC

VARIABLES
  disk,    \* the file at the container path
  copy,    \* the file at a second path: a modified copy of the container
  now,     \* the clock, time.Now()
  res,     \* what the last operation was given and what it returned
  outdir,  \* the new output directory the operation was given
  added,   \* history: the files the successful Add calls stored, in order
  sealed,  \* history: the options of the successful Seal
  tamper,  \* history: the modification that made the copy
  pending  \* an Add call that has read the container and not yet written it

vars == <<disk, copy, now, res, outdir, added, sealed, tamper, pending>>

(***************************************************************************)
(* Bounds of the model.                                                    *)
(***************************************************************************)
MaxTime == 1      \* the clock runs 0..MaxTime
MaxFiles == 2     \* Add is offered while the manifest has fewer entries
MaxAdd == MaxFiles  \* files given to one Add call
MaxNamed == 3     \* entries of a container whose files' names matter

(***************************************************************************)
(* Program constants.                                                      *)
(***************************************************************************)
Version == 1
PBKDF2Iterations == 600000

manifestPath == <<"manifest.json">>
filesDir == <<"files/">>
sealedMarker == <<".sealed">>
pubKeyPath == <<"keyring/public.key">>

StateOpen == "open"
StateSealed == "sealed"

(***************************************************************************)
(* Inputs.                                                                 *)
(***************************************************************************)
\* Files on the caller's disk: directory, base name, contents. Two of them
\* share a base name; os.ReadFile fails on the one that is not readable.
SrcFiles ==
  { [dir |-> "x", base |-> <<"a">>, data |-> <<0>>, readable |-> TRUE],
    [dir |-> "y", base |-> <<"a">>, data |-> <<1>>, readable |-> TRUE],
    [dir |-> "x", base |-> <<"b">>, data |-> <<>>, readable |-> FALSE] }

\* The signing keys Seal is given, and a key pair that signs nothing.
PrivateKeys == {"k1"}
StrangerKey == "k2"
Passphrases == {"", "pw"}
WrongPassphrase == "other"
Salts == {"s1"}
Nonces == {"n1"}
Times == 0..MaxTime

\* A nil-able value: <<>> is nil (or the empty string), <<v>> is v.
None == <<>>
Some(v) == <<v>>
IsSome(o) == o # <<>>
Val(o) == o[1]

EmptyMap == <<>>

(***************************************************************************)
(* pkg/crypto.                                                             *)
(***************************************************************************)
\* ed25519.PrivateKey.Public(): the verification key of a signing key.
Public(priv) == <<"pub", priv>>
PublicKeys == { Public(k) : k \in PrivateKeys \cup {StrangerKey} }

\* A detached signature: valid for exactly one key and one message.
SignWrongMessage(priv, data) == [signer |-> Public(priv), msg |-> <<>>]
Sign(priv, data) == [signer |-> Public(priv), msg |-> data]

CryptoVerify(pub, data, sig) == sig.signer = pub /\ sig.msg = data

\* SHA-256, hex encoded: a non-empty string that names the bytes hashed.
HashSHA256(data) == [sha256 |-> data]
Hex(h) == Some(h)

\* pbkdf2: the first block is computed once and then re-hashed
\* iterations - 1 times, so a count below 1 gives what 1 gives.
pbkdf2(password, salt, iterations) ==
  [pass |-> password, salt |-> salt, iterations |-> IF iterations < 1 THEN 1 ELSE iterations]

\* PBKDF2-HMAC-SHA256 with the built-in iteration count.
DeriveKey(passphrase, salt) == pbkdf2(passphrase, salt, PBKDF2Iterations)

\* AES-256-GCM: nonce || ciphertext || tag.
Encrypt(key, plaintext, nonce) == <<nonce, key, plaintext, "ok">>

\* Decrypt: bytes too short to hold nonce and tag are refused, and
\* gcm.Open accepts only what Encrypt made under the same key. (The
\* plaintexts of the model are shorter than a ciphertext.)
DecryptNoAuth(key, data) ==
  IF Len(data) < 4 THEN [err |-> TRUE, pt |-> <<>>] ELSE [err |-> FALSE, pt |-> data[3]]
Decrypt(key, data) ==
  IF Len(data) < 4 THEN [err |-> TRUE, pt |-> <<>>]
  ELSE IF data[2] = key /\ data[4] = "ok"
    THEN [err |-> FALSE, pt |-> data[3]]
    ELSE [err |-> TRUE, pt |-> <<>>]

MarshalPublicKeyPEM(pub) == [type |-> "IMF ED25519 PUBLIC KEY", bytes |-> pub]

(***************************************************************************)
(* pkg/manifest.                                                           *)
(***************************************************************************)
\* manifest.New
New(t) ==
  [ version |-> Version, state |-> StateOpen, created_at |-> t,
    sealed_at |-> None, expires_at |-> None, public_key |-> None,
    encryption |-> None, files |-> <<>>, signature |-> None ]

\* Manifest.AddFile
AddFileNoDuplicateCheck(m, entry) ==
  IF m.state = StateSealed THEN [err |-> "already_sealed", m |-> m]
  ELSE [err |-> "ok", m |-> [m EXCEPT !.files = Append(@, entry)]]
AddFile(m, entry) ==
  IF m.state = StateSealed THEN [err |-> "already_sealed", m |-> m]
  ELSE IF \E i \in 1..Len(m.files) : m.files[i].path = entry.path
    THEN [err |-> "duplicate", m |-> m]
  ELSE [err |-> "ok", m |-> [m EXCEPT !.files = Append(@, entry)]]

NeverSealed(m) == FALSE
IsSealed(m) == m.state = StateSealed

\* Manifest.IsExpired: time.Now().UTC().After(*m.ExpiresAt)
IsExpiredAtOrAfter(m, t) == IsSome(m.expires_at) /\ t >= Val(m.expires_at)
IsExpired(m, t) == IsSome(m.expires_at) /\ t > Val(m.expires_at)

\* Manifest.Seal
ManifestSealNoTimestamp(m, t) ==
  IF m.state = StateSealed THEN [err |-> "already_sealed", m |-> m]
  ELSE IF Len(m.files) = 0 THEN [err |-> "empty", m |-> m]
  ELSE [err |-> "ok", m |-> [m EXCEPT !.state = StateSealed]]
ManifestSealNoCheck(m, t) ==
  [err |-> "ok", m |-> [m EXCEPT !.sealed_at = Some(t), !.state = StateSealed]]
ManifestSeal(m, t) ==
  IF m.state = StateSealed THEN [err |-> "already_sealed", m |-> m]
  ELSE IF Len(m.files) = 0 THEN [err |-> "empty", m |-> m]
  ELSE [err |-> "ok", m |-> [m EXCEPT !.sealed_at = Some(t), !.state = StateSealed]]

\* encoding/json on FileEntry: encrypted_sha256 has omitempty.
FileJsonKeys(f) ==
  {"path", "original_name", "original_size", "sha256"}
    \cup (IF IsSome(f.encrypted_sha256) THEN {"encrypted_sha256"} ELSE {})
FileJson(f) ==
  [ k \in FileJsonKeys(f) |->
      CASE k = "path" -> f.path
        [] k = "original_name" -> f.original_name
        [] k = "original_size" -> f.original_size
        [] k = "sha256" -> f.sha256
        [] k = "encrypted_sha256" -> Val(f.encrypted_sha256) ]

\* encoding/json on EncryptionInfo: iterations has omitempty.
EncJsonKeys(e) ==
  {"algorithm", "kdf", "salt"} \cup (IF e.iterations # 0 THEN {"iterations"} ELSE {})
EncJson(e) ==
  [ k \in EncJsonKeys(e) |->
      CASE k = "algorithm" -> e.algorithm
        [] k = "kdf" -> e.kdf
        [] k = "salt" -> e.salt
        [] k = "iterations" -> e.iterations ]

\* encoding/json on Manifest: sealed_at, expires_at, public_key, encryption
\* and signature have omitempty, so a nil or empty one is left out.
ManifestJsonKeys(m) ==
  {"version", "state", "created_at", "files"}
    \cup (IF IsSome(m.sealed_at) THEN {"sealed_at"} ELSE {})
    \cup (IF IsSome(m.expires_at) THEN {"expires_at"} ELSE {})
    \cup (IF IsSome(m.public_key) THEN {"public_key"} ELSE {})
    \cup (IF IsSome(m.encryption) THEN {"encryption"} ELSE {})
    \cup (IF IsSome(m.signature) THEN {"signature"} ELSE {})
ManifestJson(m) ==
  [ k \in ManifestJsonKeys(m) |->
      CASE k = "version" -> m.version
        [] k = "state" -> m.state
        [] k = "created_at" -> m.created_at
        [] k = "sealed_at" -> Val(m.sealed_at)
        [] k = "expires_at" -> Val(m.expires_at)
        [] k = "public_key" -> Val(m.public_key)
        [] k = "encryption" -> EncJson(Val(m.encryption))
        [] k = "files" -> [i \in 1..Len(m.files) |-> FileJson(m.files[i])]
        [] k = "signature" -> Val(m.signature) ]

\* Manifest.Marshal: json.MarshalIndent(m, "", "  ")
Marshal(m) == [indent |-> "  ", obj |-> ManifestJson(m)]

\* Manifest.SignableBytes: json.Marshal of a copy whose Signature is "".
SignableBytesNoExpiry(m) ==
  [indent |-> "", obj |-> ManifestJson([m EXCEPT !.signature = None, !.expires_at = None])]
SignableBytes(m) ==
  [indent |-> "", obj |-> ManifestJson([m EXCEPT !.signature = None])]

\* json.Unmarshal: a key that is absent leaves the field at its zero value.
Field(obj, k, zero) == IF k \in DOMAIN obj THEN obj[k] ELSE zero
OptField(obj, k) == IF k \in DOMAIN obj THEN Some(obj[k]) ELSE None

FileFromJson(j) ==
  [ path |-> Field(j, "path", <<>>),
    original_name |-> Field(j, "original_name", <<>>),
    original_size |-> Field(j, "original_size", 0),
    sha256 |-> Field(j, "sha256", None),
    encrypted_sha256 |-> OptField(j, "encrypted_sha256") ]

EncFromJson(j) ==
  [ algorithm |-> Field(j, "algorithm", ""),
    kdf |-> Field(j, "kdf", ""),
    salt |-> Field(j, "salt", ""),
    iterations |-> Field(j, "iterations", 0) ]

ManifestFromJson(obj) ==
  [ version |-> Field(obj, "version", 0),
    state |-> Field(obj, "state", ""),
    created_at |-> Field(obj, "created_at", 0),
    sealed_at |-> OptField(obj, "sealed_at"),
    expires_at |-> OptField(obj, "expires_at"),
    public_key |-> OptField(obj, "public_key"),
    encryption |-> IF "encryption" \in DOMAIN obj
                     THEN Some(EncFromJson(obj["encryption"])) ELSE None,
    files |-> LET fs == Field(obj, "files", <<>>)
              IN [i \in 1..Len(fs) |-> FileFromJson(fs[i])],
    signature |-> OptField(obj, "signature") ]

\* json.Unmarshal accepts one JSON value and nothing after it: the bytes
\* Marshal writes, with any indentation, and not those bytes followed by
\* more.
ValidJson(doc) == DOMAIN doc = {"indent", "obj"}

\* manifest.Unmarshal
UnmarshalNoVersionCheck(doc) ==
  IF ~ValidJson(doc) THEN [err |-> "parsing_manifest", m |-> New(0)]
  ELSE [err |-> "ok", m |-> ManifestFromJson(doc.obj)]
Unmarshal(doc) ==
  LET m == ManifestFromJson(doc.obj) IN
  IF ~ValidJson(doc) THEN [err |-> "parsing_manifest", m |-> New(0)]
  ELSE IF m.version = 0 THEN [err |-> "invalid_manifest", m |-> m]
  ELSE IF m.version > Version THEN [err |-> "unsupported_version", m |-> m]
  ELSE [err |-> "ok", m |-> m]

(***************************************************************************)
(* The archive file: archive/zip as the engine uses it.                    *)
(***************************************************************************)
\* CRC-32 of a member's bytes, as the writer records it in the directory.
CRC32(body) == [crc32 |-> body]

\* A member as zip.Writer stores it.
Member(body) == [body |-> body, crc |-> CRC32(body)]

\* No file at the path.
NoFile == [exists |-> FALSE, manifest |-> None, entries |-> EmptyMap, dir |-> FALSE]

\* The file right after os.Create: it exists and is empty.
Truncated == [exists |-> TRUE, manifest |-> None, entries |-> EmptyMap, dir |-> FALSE]

\* zip.NewReader: needs the end-of-central-directory record.
ZipOpensAlways(ar) == ar.exists
ZipOpens(ar) == ar.exists /\ ar.dir

\* Reading a member to EOF checks its bytes against the recorded CRC-32.
MemberReads(mem) == CRC32(mem.body) = mem.crc

\* readContainer
readContainer(ar) ==
  IF ~ar.exists THEN [err |-> "read", m |-> New(0)]
  ELSE IF ~ZipOpens(ar) THEN [err |-> "zip", m |-> New(0)]
  ELSE IF ~IsSome(ar.manifest) THEN [err |-> "no_manifest", m |-> New(0)]
  ELSE IF ~MemberReads(Val(ar.manifest)) THEN [err |-> "checksum", m |-> New(0)]
  ELSE Unmarshal(Val(ar.manifest).body)

\* readZipEntries: every member but the excluded ones, by name. Each caller
\* excludes manifest.json, which the archive keeps apart from the others.
readZipEntries(ar, excludePaths) ==
  LET names == DOMAIN ar.entries \ excludePaths IN
  IF ~ZipOpens(ar) THEN [err |-> "zip", entries |-> EmptyMap]
  ELSE IF \E n \in names : ~MemberReads(ar.entries[n])
    THEN [err |-> "checksum", entries |-> EmptyMap]
  ELSE [err |-> "ok", entries |-> [n \in names |-> ar.entries[n].body]]

\* The points at which writing an archive can stop (an I/O error, or the
\* process being killed): before os.Create, right after it, after the
\* manifest member, after the last member but before the directory.
WriteFaults == {"none", "create", "truncate", "manifest", "members"}

\* The whole archive rewriteContainer writes: manifest first, then the
\* existing entries, then the new ones (a reader keeps the later of two
\* members with one name).
FullArchive(m, existing, newEntries) ==
  [ exists |-> TRUE,
    manifest |-> Some(Member(Marshal(m))),
    entries |-> [ n \in DOMAIN existing \cup DOMAIN newEntries |->
                    Member(IF n \in DOMAIN newEntries THEN newEntries[n] ELSE existing[n]) ],
    dir |-> TRUE ]

\* rewriteContainer: os.Create on the container path itself, then the
\* members, then zw.Close() writes the directory.
rewriteContainer(old, m, existing, newEntries, fault) ==
  LET full == FullArchive(m, existing, newEntries) IN
  CASE fault = "none" -> [err |-> "ok", disk |-> full]
    [] fault = "create" -> [err |-> "io", disk |-> old]
    [] fault = "truncate" -> [err |-> "io", disk |-> Truncated]
    [] fault = "manifest" ->
         [err |-> "io", disk |-> [Truncated EXCEPT !.manifest = full.manifest]]
    [] fault = "members" -> [err |-> "io", disk |-> [full EXCEPT !.dir = FALSE]]

\* entryExists
entryExists(m, path) == \E i \in 1..Len(m.files) : m.files[i].path = path

(***************************************************************************)
(* File names.                                                             *)
(***************************************************************************)
\* filepath.Ext: the suffix beginning at the final dot, "" without a dot.
Ext(name) ==
  IF \E i \in 1..Len(name) : name[i] = "."
    THEN LET i == CHOOSE i \in 1..Len(name) :
                    name[i] = "." /\ \A j \in (i + 1)..Len(name) : name[j] # "."
         IN SubSeq(name, i, Len(name))
    ELSE <<>>

\* strings.TrimSuffix
TrimSuffix(s, suffix) ==
  IF Len(suffix) <= Len(s) /\ SubSeq(s, Len(s) - Len(suffix) + 1, Len(s)) = suffix
    THEN SubSeq(s, 1, Len(s) - Len(suffix))
    ELSE s

\* fmt's %d
DigitChars == <<"0", "1", "2", "3", "4", "5", "6", "7", "8", "9">>
RECURSIVE Itoa(_)
Itoa(n) ==
  IF n < 10 THEN <<DigitChars[n + 1]>>
  ELSE Itoa(n \div 10) \o <<DigitChars[(n % 10) + 1]>>

encSuffix == <<".", "e", "n", "c">>

(***************************************************************************)
(* pkg/container: the engine's operations as functions of the file at the  *)
(* container path, the inputs and the clock.                               *)
(***************************************************************************)
\* Create. The deferred zw.Close() writes the directory and its error is
\* dropped, so a failure there still returns nil.
CreateFaults == {"none", "create", "truncate", "members"}
CreateNoExtCheck(ar, hasImfExt, t, fault) ==
  IF ar.exists THEN [err |-> "exists", disk |-> ar]
  ELSE [err |-> "ok", disk |-> FullArchive(New(t), EmptyMap, EmptyMap)]
CreateOverwrites(ar, hasImfExt, t, fault) ==
  IF ~hasImfExt THEN [err |-> "bad_extension", disk |-> ar]
  ELSE [err |-> "ok", disk |-> FullArchive(New(t), EmptyMap, EmptyMap)]
Create(ar, hasImfExt, t, fault) ==
  LET full == FullArchive(New(t), EmptyMap, EmptyMap) IN
  IF ~hasImfExt THEN [err |-> "bad_extension", disk |-> ar]
  ELSE IF ar.exists THEN [err |-> "exists", disk |-> ar]
  ELSE CASE fault = "none" -> [err |-> "ok", disk |-> full]
         [] fault = "create" -> [err |-> "io", disk |-> ar]
         [] fault = "truncate" -> [err |-> "io", disk |-> Truncated]
         [] fault = "members" -> [err |-> "ok", disk |-> [full EXCEPT !.dir = FALSE]]

\* Add, lines 165-174: the first free path among files/<base>,
\* files/<stem>_1<ext>, files/<stem>_2<ext>, ...
RECURSIVE FreePathSuffixAfterExt(_, _, _, _, _)
FreePathSuffixAfterExt(m, newEntries, baseName, zipPath, suffix) ==
  IF entryExists(m, zipPath) \/ zipPath \in DOMAIN newEntries
    THEN FreePathSuffixAfterExt(m, newEntries, baseName,
                                filesDir \o baseName \o <<"_">> \o Itoa(suffix), suffix + 1)
    ELSE zipPath
RECURSIVE FreePath(_, _, _, _, _)
FreePath(m, newEntries, baseName, zipPath, suffix) ==
  IF entryExists(m, zipPath) \/ zipPath \in DOMAIN newEntries
    THEN LET ext == Ext(baseName)
             name == TrimSuffix(baseName, ext)
         IN FreePath(m, newEntries, baseName,
                     filesDir \o name \o <<"_">> \o Itoa(suffix) \o ext, suffix + 1)
    ELSE zipPath

\* Add, lines 154-197: the loop over filePaths.
RECURSIVE AddLoopSkipUnreadable(_, _, _)
AddLoopSkipUnreadable(m, newEntries, filePaths) ==
  IF filePaths = <<>> THEN [err |-> "ok", m |-> m, newEntries |-> newEntries]
  ELSE LET fp == Head(filePaths) IN
    IF ~fp.readable THEN AddLoopSkipUnreadable(m, newEntries, Tail(filePaths))
    ELSE LET zipPath == FreePath(m, newEntries, fp.base, filesDir \o fp.base, 1)
             entry == [ path |-> zipPath,
                        original_name |-> fp.base,
                        original_size |-> Len(fp.data),
                        sha256 |-> Hex(HashSHA256(fp.data)),
                        encrypted_sha256 |-> None ]
         IN AddLoopSkipUnreadable(AddFile(m, entry).m, (zipPath :> fp.data) @@ newEntries,
                                  Tail(filePaths))
RECURSIVE AddLoop(_, _, _)
AddLoop(m, newEntries, filePaths) ==
  IF filePaths = <<>> THEN [err |-> "ok", m |-> m, newEntries |-> newEntries]
  ELSE LET fp == Head(filePaths) IN
    IF ~fp.readable THEN [err |-> "unreadable", m |-> m, newEntries |-> newEntries]
    ELSE LET baseName == fp.base
             zipPath == FreePath(m, newEntries, baseName, filesDir \o baseName, 1)
             entry == [ path |-> zipPath,
                        original_name |-> baseName,
                        original_size |-> Len(fp.data),
                        sha256 |-> Hex(HashSHA256(fp.data)),
                        encrypted_sha256 |-> None ]
             r == AddFile(m, entry)
         IN IF r.err # "ok" THEN [err |-> r.err, m |-> m, newEntries |-> newEntries]
            ELSE AddLoop(r.m, (zipPath :> fp.data) @@ newEntries, Tail(filePaths))

\* Add, lines 134-197: all it does before it writes - the manifest, the
\* existing members and the new members it holds in memory, or the error
\* it returns.
AddRead(ar, filePaths) ==
  LET rc == readContainer(ar)
      ex == readZipEntries(ar, {manifestPath})
      lp == AddLoop(rc.m, EmptyMap, filePaths)
      stop(e) == [err |-> e, m |-> New(0), existing |-> EmptyMap, newEntries |-> EmptyMap]
  IN
  IF rc.err # "ok" THEN stop(rc.err)
  ELSE IF IsSealed(rc.m) THEN stop("already_sealed")
  ELSE IF ex.err # "ok" THEN stop(ex.err)
  ELSE IF lp.err # "ok" THEN stop(lp.err)
  ELSE [err |-> "ok", m |-> lp.m, existing |-> ex.entries, newEntries |-> lp.newEntries]

\* Add, line 200: what it holds in memory written over the file that is at
\* the container path by then.
AddWriteNewOnly(ar, held, fault) ==
  rewriteContainer(ar, held.m, EmptyMap, held.newEntries, fault)
AddWrite(ar, held, fault) ==
  rewriteContainer(ar, held.m, held.existing, held.newEntries, fault)

\* Add
Add(ar, filePaths, fault) ==
  LET held == AddRead(ar, filePaths) IN
  IF held.err # "ok" THEN [err |-> held.err, disk |-> ar]
  ELSE AddWrite(ar, held, fault)

\* Seal, lines 266-285: every file entry encrypted, renamed and re-hashed.
EncryptedFilesByName(files, existingEntries, encKey, nonce) ==
  [ i \in 1..Len(files) |->
      [ files[i] EXCEPT
          !.encrypted_sha256 =
              Hex(HashSHA256(Encrypt(encKey, existingEntries[files[i].path], nonce))),
          !.path = filesDir \o files[i].original_name \o encSuffix ] ]
EncryptedFilesNoHash(files, existingEntries, encKey, nonce) ==
  [ i \in 1..Len(files) |-> [ files[i] EXCEPT !.path = files[i].path \o encSuffix ] ]
EncryptedFiles(files, existingEntries, encKey, nonce) ==
  [ i \in 1..Len(files) |->
      [ files[i] EXCEPT
          !.encrypted_sha256 =
              Hex(HashSHA256(Encrypt(encKey, existingEntries[files[i].path], nonce))),
          !.path = files[i].path \o encSuffix ] ]

EncryptedEntriesStoredPlain(files, existingEntries, encKey, nonce) ==
  [ p \in { files[i].path \o encSuffix : i \in 1..Len(files) } |->
      LET i == CHOOSE i \in 1..Len(files) : files[i].path \o encSuffix = p
      IN existingEntries[files[i].path] ]
EncryptedEntriesKeepPlain(files, existingEntries, encKey, nonce) ==
  [ p \in { files[i].path \o encSuffix : i \in 1..Len(files) } |->
      LET i == CHOOSE i \in 1..Len(files) : files[i].path \o encSuffix = p
      IN Encrypt(encKey, existingEntries[files[i].path], nonce) ] @@ existingEntries
EncryptedEntries(files, existingEntries, encKey, nonce) ==
  [ p \in { files[i].path \o encSuffix : i \in 1..Len(files) } |->
      LET i == CHOOSE i \in 1..Len(files) : files[i].path \o encSuffix = p
      IN Encrypt(encKey, existingEntries[files[i].path], nonce) ]

\* Seal, up to and including the signature: the manifest and the members
\* that will be written, or the error that stops it before any write.
SealFaults == WriteFaults \cup {"salt", "encrypt"}
SealInMemory(m0, existingEntries, opts, t, salt, nonce, fault) ==
  LET encrypting == opts.passphrase # ""
      encKey == DeriveKey(opts.passphrase, salt)
      m1 == IF encrypting
              THEN [m0 EXCEPT
                      !.encryption = Some([ algorithm |-> "AES-256-GCM",
                                            kdf |-> "PBKDF2-HMAC-SHA256",
                                            salt |-> salt,
                                            iterations |-> PBKDF2Iterations ]),
                      !.files = EncryptedFiles(m0.files, existingEntries, encKey, nonce)]
              ELSE m0
      entries1 == IF encrypting
                    THEN EncryptedEntries(m0.files, existingEntries, encKey, nonce)
                    ELSE existingEntries
      m2 == IF IsSome(opts.expiresAt) THEN [m1 EXCEPT !.expires_at = opts.expiresAt] ELSE m1
      pubKey == Public(opts.privateKey)
      m3 == IF opts.embedPubKey THEN [m2 EXCEPT !.public_key = Some(pubKey)] ELSE m2
      entries3 == IF opts.embedPubKey
                    THEN (pubKeyPath :> MarshalPublicKeyPEM(pubKey)) @@ entries1
                    ELSE entries1
      sl == ManifestSeal(m3, t)
      m5 == [sl.m EXCEPT !.signature = Some(Sign(opts.privateKey, SignableBytes(sl.m)))]
      entries6 == (sealedMarker :> "sealed") @@ entries3
  IN
  IF encrypting /\ fault = "salt" THEN [err |-> "salt", m |-> m0, entries |-> EmptyMap]
  ELSE IF encrypting /\ Len(m0.files) > 0 /\ m0.files[1].path \in DOMAIN existingEntries
          /\ fault = "encrypt"
    THEN [err |-> "encrypt", m |-> m0, entries |-> EmptyMap]
  ELSE IF encrypting /\ \E i \in 1..Len(m0.files) : m0.files[i].path \notin DOMAIN existingEntries
    THEN [err |-> "missing_file", m |-> m0, entries |-> EmptyMap]
  ELSE IF sl.err # "ok" THEN [err |-> sl.err, m |-> m0, entries |-> EmptyMap]
  ELSE [err |-> "ok", m |-> m5, entries |-> entries6]

\* Seal
Seal(ar, opts, t, salt, nonce, fault) ==
  LET rc == readContainer(ar) IN
  IF rc.err # "ok" THEN [err |-> rc.err, disk |-> ar]
  ELSE IF IsSealed(rc.m) THEN [err |-> "already_sealed", disk |-> ar]
  ELSE LET ex == readZipEntries(ar, {manifestPath}) IN
    IF ex.err # "ok" THEN [err |-> ex.err, disk |-> ar]
    ELSE LET im == SealInMemory(rc.m, ex.entries, opts, t, salt, nonce, fault) IN
      IF im.err # "ok" THEN [err |-> im.err, disk |-> ar]
      ELSE rewriteContainer(ar, im.m, EmptyMap, im.entries,
                            IF fault \in WriteFaults THEN fault ELSE "none")

\* Verify, lines 400-413: the check of one file entry.
VerifyFile(fe, entries) ==
  IF fe.path \notin DOMAIN entries THEN "missing_file"
  ELSE IF IsSome(fe.encrypted_sha256)
          /\ Hex(HashSHA256(entries[fe.path])) # fe.encrypted_sha256
    THEN "hash_mismatch"
  ELSE "ok"

\* Verify, lines 363-375: the key the signature is checked with, once one
\* of the two is known to be there.
PubKeyPreferEmbedded(opts, m) ==
  IF IsSome(m.public_key) THEN Val(m.public_key) ELSE Val(opts.publicKey)
PubKeyFor(opts, m) ==
  IF IsSome(opts.publicKey) THEN Val(opts.publicKey) ELSE Val(m.public_key)

VerifyFilesFirst(ar, opts, t) ==
  LET rc == readContainer(ar)
      m == rc.m
      en == readZipEntries(ar, {manifestPath, sealedMarker, pubKeyPath})
      bad == { i \in 1..Len(m.files) : VerifyFile(m.files[i], en.entries) # "ok" }
  IN
  IF rc.err # "ok" THEN rc.err
  ELSE IF ~IsSealed(m) THEN "not_sealed"
  ELSE IF IsExpired(m, t) /\ ~opts.ignoreExpiry THEN "expired"
  ELSE IF ~IsSome(opts.publicKey) /\ ~IsSome(m.public_key) THEN "no_key"
  ELSE IF en.err # "ok" THEN en.err
  ELSE IF bad # {}
    THEN VerifyFile(m.files[CHOOSE i \in bad : \A j \in bad : i <= j], en.entries)
  ELSE IF ~IsSome(m.signature) THEN "bad_signature"
  ELSE IF ~CryptoVerify(PubKeyFor(opts, m), SignableBytes(m), Val(m.signature))
    THEN "bad_signature"
  ELSE "ok"
\* Verify
Verify(ar, opts, t) ==
  LET rc == readContainer(ar)
      m == rc.m
      pubKey == PubKeyFor(opts, m)
      en == readZipEntries(ar, {manifestPath, sealedMarker, pubKeyPath})
      bad == { i \in 1..Len(m.files) : VerifyFile(m.files[i], en.entries) # "ok" }
  IN
  IF rc.err # "ok" THEN rc.err
  ELSE IF ~IsSealed(m) THEN "not_sealed"
  ELSE IF IsExpired(m, t) /\ ~opts.ignoreExpiry THEN "expired"
  ELSE IF ~IsSome(opts.publicKey) /\ ~IsSome(m.public_key) THEN "no_key"
  ELSE IF ~IsSome(m.signature) THEN "bad_signature"
  ELSE IF ~CryptoVerify(pubKey, SignableBytes(m), Val(m.signature)) THEN "bad_signature"
  ELSE IF en.err # "ok" THEN en.err
  ELSE IF bad # {}
    THEN VerifyFile(m.files[CHOOSE i \in bad : \A j \in bad : i <= j], en.entries)
  ELSE "ok"

\* Extract, lines 469-495: the loop over the file entries of a sealed
\* container; os.WriteFile replaces a file of the same name.
RECURSIVE ExtractLoopWriteFirst(_, _, _, _, _)
ExtractLoopWriteFirst(encrypted, entries, decKey, files, out) ==
  IF files = <<>> THEN [err |-> "ok", out |-> out]
  ELSE LET fe == Head(files) IN
    IF fe.path \notin DOMAIN entries THEN [err |-> "missing_file", out |-> out]
    ELSE LET dec == IF encrypted THEN Decrypt(decKey, entries[fe.path])
                    ELSE [err |-> FALSE, pt |-> entries[fe.path]]
             written == (fe.original_name :> dec.pt) @@ out
         IN IF dec.err THEN [err |-> "decrypt", out |-> out]
            ELSE IF Hex(HashSHA256(dec.pt)) # fe.sha256
              THEN [err |-> "hash_mismatch", out |-> written]
            ELSE ExtractLoopWriteFirst(encrypted, entries, decKey, Tail(files), written)
RECURSIVE ExtractLoop(_, _, _, _, _)
ExtractLoop(encrypted, entries, decKey, files, out) ==
  IF files = <<>> THEN [err |-> "ok", out |-> out]
  ELSE LET fe == Head(files) IN
    IF fe.path \notin DOMAIN entries THEN [err |-> "missing_file", out |-> out]
    ELSE LET dec == IF encrypted THEN Decrypt(decKey, entries[fe.path])
                    ELSE [err |-> FALSE, pt |-> entries[fe.path]]
         IN IF dec.err THEN [err |-> "decrypt", out |-> out]
            ELSE IF Hex(HashSHA256(dec.pt)) # fe.sha256
              THEN [err |-> "hash_mismatch", out |-> out]
            ELSE ExtractLoop(encrypted, entries, decKey, Tail(files),
                             (fe.original_name :> dec.pt) @@ out)

\* extractUnsealed
RECURSIVE UnsealedLoop(_, _, _)
UnsealedLoop(entries, files, out) ==
  IF files = <<>> THEN [err |-> "ok", out |-> out]
  ELSE LET fe == Head(files) IN
    IF fe.path \notin DOMAIN entries THEN [err |-> "missing_file", out |-> out]
    ELSE UnsealedLoop(entries, Tail(files), (fe.original_name :> entries[fe.path]) @@ out)

extractUnsealedChecked(m, ar, out) ==
  LET en == readZipEntries(ar, {manifestPath}) IN
  IF en.err # "ok" THEN [err |-> en.err, out |-> out]
  ELSE ExtractLoop(FALSE, en.entries, None, m.files, out)
extractUnsealed(m, ar, out) ==
  LET en == readZipEntries(ar, {manifestPath}) IN
  IF en.err # "ok" THEN [err |-> en.err, out |-> out]
  ELSE UnsealedLoop(en.entries, m.files, out)

\* Extract, lines 448-462: the decryption key of an encrypted container.
ExtractKey(opts, m) == DeriveKey(opts.passphrase, Val(m.encryption).salt)

\* Extract into an output directory holding `out`.
Extract(ar, opts, t, out) ==
  LET rc == readContainer(ar)
      m == rc.m
      en == readZipEntries(ar, {manifestPath, sealedMarker, pubKeyPath})
      encrypted == IsSome(m.encryption)
      decKey == ExtractKey(opts, m)
  IN
  IF rc.err # "ok" THEN [err |-> rc.err, out |-> out]
  ELSE IF ~IsSealed(m) THEN extractUnsealed(m, ar, out)
  ELSE IF IsExpired(m, t) /\ ~opts.ignoreExpiry THEN [err |-> "expired", out |-> out]
  ELSE IF en.err # "ok" THEN [err |-> en.err, out |-> out]
  ELSE IF encrypted /\ opts.passphrase = "" THEN [err |-> "no_passphrase", out |-> out]
  ELSE ExtractLoop(encrypted, en.entries, decKey, m.files, out)

\* ListFiles
ListFiles(ar) ==
  LET rc == readContainer(ar) IN
  IF rc.err # "ok" THEN [err |-> rc.err, files |-> <<>>]
  ELSE [ err |-> "ok",
         files |-> [ i \in 1..Len(rc.m.files) |->
                       [ OriginalName |-> rc.m.files[i].original_name,
                         OriginalSize |-> rc.m.files[i].original_size,
                         SHA256 |-> rc.m.files[i].sha256 ] ] ]

GetInfoNeverExpired(ar, t) ==
  LET r == readContainer(ar) IN
  IF r.err # "ok" THEN [err |-> r.err, info |-> None]
  ELSE [ err |-> "ok",
         info |-> Some([ State |-> r.m.state,
                         CreatedAt |-> r.m.created_at,
                         SealedAt |-> r.m.sealed_at,
                         ExpiresAt |-> r.m.expires_at,
                         Expired |-> FALSE,
                         Encrypted |-> IsSome(r.m.encryption),
                         HasPubKey |-> IsSome(r.m.public_key),
                         FileCount |-> Len(r.m.files) ]) ]
\* GetInfo
GetInfo(ar, t) ==
  LET rc == readContainer(ar)
      m == rc.m
  IN
  IF rc.err # "ok" THEN [err |-> rc.err, info |-> None]
  ELSE [ err |-> "ok",
         info |-> Some([ State |-> m.state,
                         CreatedAt |-> m.created_at,
                         SealedAt |-> m.sealed_at,
                         ExpiresAt |-> m.expires_at,
                         Expired |-> IsExpired(m, t),
                         Encrypted |-> IsSome(m.encryption),
                         HasPubKey |-> IsSome(m.public_key),
                         FileCount |-> Len(m.files) ]) ]

(***************************************************************************)
(* Modifications of a sealed archive, made on a copy at a second path.     *)
(***************************************************************************)
\* Other bytes of the same kind for the member `name`: one bit flipped.
FlipBody(ar, name) ==
  LET body == ar.entries[name].body
      m == Unmarshal(Val(ar.manifest).body).m
  IN
  IF name = sealedMarker THEN "sealee"
  ELSE IF name = pubKeyPath THEN [body EXCEPT !.type = "IMF ED25519 PUBLIC KEX"]
  ELSE IF IsSome(m.encryption) THEN [body EXCEPT ![4] = "corrupt"]
  ELSE IF body = <<>> THEN <<1>>
  ELSE [body EXCEPT ![1] = 1 - @]

\* One bit flipped inside a member's stored bytes: the directory still
\* holds the CRC-32 of the original bytes.
FlipMods(ar) == { [kind |-> "flip", name |-> n] : n \in {manifestPath} \cup DOMAIN ar.entries }

\* One file member replaced, CRC-32 included, as any ZIP tool would do it.
ReplaceMods(ar) ==
  { [kind |-> "replace", name |-> n] : n \in DOMAIN ar.entries \ {sealedMarker, pubKeyPath} }

\* The last k > 0 bytes removed: what is left is one of the prefixes
\* a stopped write leaves.
TruncateMods == { [kind |-> "truncate", keep |-> k] : k \in {"truncate", "manifest", "members"} }

\* The manifests that differ from m in one field other than signature.
FileFieldChanges(ar, m, i) ==
  LET fe == m.files[i]
      other == Hex(HashSHA256(FlipBody(ar, fe.path)))
  IN
  { [fe EXCEPT !.path = @ \o <<"x">>],
    [fe EXCEPT !.original_name = @ \o <<"x">>],
    [fe EXCEPT !.original_size = @ + 1],
    [fe EXCEPT !.sha256 = Hex(HashSHA256(<<0, 0, 0>>))],
    [fe EXCEPT !.encrypted_sha256 = IF IsSome(@) THEN None ELSE other],
    [fe EXCEPT !.encrypted_sha256 = other] } \ {fe}

EncryptionChanges(e) ==
  IF IsSome(e)
    THEN { None,
           Some([Val(e) EXCEPT !.algorithm = "none"]),
           Some([Val(e) EXCEPT !.kdf = "none"]),
           Some([Val(e) EXCEPT !.salt = "s0"]),
           Some([Val(e) EXCEPT !.iterations = 1]),
           Some([Val(e) EXCEPT !.iterations = 0]) }
    ELSE { Some([ algorithm |-> "AES-256-GCM", kdf |-> "PBKDF2-HMAC-SHA256",
                  salt |-> "s0", iterations |-> PBKDF2Iterations ]) }

RemoveAt(seq, i) == SubSeq(seq, 1, i - 1) \o SubSeq(seq, i + 1, Len(seq))

ManifestChanges(ar, m) ==
  { [field |-> "version", m |-> [m EXCEPT !.version = v]] : v \in {0 - 1, 0, 2} }
  \cup { [field |-> "state", m |-> [m EXCEPT !.state = StateOpen]] }
  \cup { [field |-> "created_at", m |-> [m EXCEPT !.created_at = @ + 1]] }
  \cup { [field |-> "sealed_at", m |-> [m EXCEPT !.sealed_at = x]] :
           x \in {None, Some(Val(m.sealed_at) + 1)} }
  \cup { [field |-> "expires_at", m |-> [m EXCEPT !.expires_at = x]] :
           x \in ({None} \cup { Some(t) : t \in 0..(MaxTime + 1) }) \ {m.expires_at} }
  \cup { [field |-> "public_key", m |-> [m EXCEPT !.public_key = x]] :
           x \in ({None} \cup { Some(k) : k \in PublicKeys }) \ {m.public_key} }
  \cup { [field |-> "encryption", m |-> [m EXCEPT !.encryption = x]] :
           x \in EncryptionChanges(m.encryption) }
  \cup UNION { { [field |-> "files", m |-> [m EXCEPT !.files[i] = fe]] :
                   fe \in FileFieldChanges(ar, m, i) } : i \in 1..Len(m.files) }
  \cup { [field |-> "files", m |-> [m EXCEPT !.files = RemoveAt(@, i)]] : i \in 1..Len(m.files) }
  \cup { [field |-> "files", m |-> [m EXCEPT !.files = Append(@, @[1])]] }
  \cup (IF Len(m.files) >= 2 /\ m.files[1] # m.files[2]
          THEN { [field |-> "files",
                  m |-> [m EXCEPT !.files = <<@[2], @[1]>> \o SubSeq(@, 3, Len(@))]] }
          ELSE {})

FieldMods(ar) ==
  { [kind |-> "field", field |-> c.field, m |-> c.m] :
      c \in ManifestChanges(ar, Unmarshal(Val(ar.manifest).body).m) }

\* manifest.json replaced by bytes that are not one JSON value.
MalformedMods == { [kind |-> "malformed"] }

Mods(ar) ==
  FlipMods(ar) \cup ReplaceMods(ar) \cup TruncateMods \cup FieldMods(ar) \cup MalformedMods

ApplyMod(ar, mod) ==
  CASE mod.kind = "flip" ->
         IF mod.name = manifestPath
           THEN [ar EXCEPT !.manifest =
                   Some([Val(@) EXCEPT !.body = [@ EXCEPT !.indent = " "]])]
           ELSE [ar EXCEPT !.entries[mod.name].body = FlipBody(ar, mod.name)]
    [] mod.kind = "replace" ->
         [ar EXCEPT !.entries[mod.name] = Member(FlipBody(ar, mod.name))]
    [] mod.kind = "truncate" ->
         ( CASE mod.keep = "truncate" -> Truncated
             [] mod.keep = "manifest" -> [Truncated EXCEPT !.manifest = ar.manifest]
             [] mod.keep = "members" -> [ar EXCEPT !.dir = FALSE] )
    [] mod.kind = "field" ->
         [ar EXCEPT !.manifest = Some(Member(Marshal(mod.m)))]
    [] mod.kind = "malformed" ->
         LET doc == Val(ar.manifest).body IN
         [ar EXCEPT !.manifest =
            Some(Member([indent |-> doc.indent, obj |-> doc.obj, rest |-> "}"]))]

(***************************************************************************)
(* The state machine. Every operation is given a new, empty output         *)
(* directory; only Extract writes into it.                                 *)
(***************************************************************************)
Idle == [op |-> "none", err |-> "ok"]
NoMod == [kind |-> "none"]

Init ==
  /\ disk = NoFile
  /\ copy = NoFile
  /\ now = 0
  /\ res = Idle
  /\ outdir = EmptyMap
  /\ added = <<>>
  /\ sealed = None
  /\ tamper = NoMod
  /\ pending = None

\* The file at one of the two paths.
FileAt(target) == IF target = "disk" THEN disk ELSE copy

\* The number of file entries of the container, 0 when it cannot be read.
EntryCount == LET rc == readContainer(disk) IN IF rc.err = "ok" THEN Len(rc.m.files) ELSE 0

\* The lists of at most MaxAdd files a caller passes to Add.
FileLists == UNION { [1..n -> SrcFiles] : n \in 0..MaxAdd }

SealOptions ==
  [ privateKey : PrivateKeys,
    embedPubKey : BOOLEAN,
    passphrase : Passphrases,
    expiresAt : {None} \cup { Some(t) : t \in Times } ]

VerifyOptions ==
  [ publicKey : {None} \cup { Some(k) : k \in PublicKeys },
    ignoreExpiry : BOOLEAN ]

ExtractOptions ==
  [ passphrase : Passphrases \cup {WrongPassphrase},
    ignoreExpiry : BOOLEAN ]

NoFaults == {"none"}
AllFaults == SealFaults

Tick ==
  /\ now < MaxTime
  /\ now' = now + 1
  /\ res' = Idle
  /\ outdir' = EmptyMap
  /\ UNCHANGED <<disk, copy, added, sealed, tamper, pending>>

CreateOp(faults) ==
  \E hasImfExt \in BOOLEAN, fault \in CreateFaults \cap faults :
    LET r == Create(disk, hasImfExt, now, fault) IN
    /\ disk' = r.disk
    /\ res' = [op |-> "create", err |-> r.err]
    /\ outdir' = EmptyMap
    /\ UNCHANGED <<copy, now, added, sealed, tamper, pending>>

AddOp(faults) ==
  \E filePaths \in FileLists, fault \in WriteFaults \cap faults :
    LET r == Add(disk, filePaths, fault) IN
    /\ EntryCount + Len(filePaths) <= MaxFiles
    /\ disk' = r.disk
    /\ res' = [op |-> "add", err |-> r.err]
    /\ outdir' = EmptyMap
    /\ added' = IF r.err = "ok" THEN added \o filePaths ELSE added
    /\ UNCHANGED <<copy, now, sealed, tamper, pending>>

SealOp(faults) ==
  \E opts \in SealOptions, salt \in Salts, nonce \in Nonces, fault \in SealFaults \cap faults :
    LET r == Seal(disk, opts, now, salt, nonce, fault) IN
    /\ disk' = r.disk
    /\ res' = [op |-> "seal", err |-> r.err]
    /\ outdir' = EmptyMap
    /\ sealed' = IF r.err = "ok" THEN Some(opts) ELSE sealed
    /\ UNCHANGED <<copy, now, added, tamper, pending>>

VerifyOp(target) ==
  \E opts \in VerifyOptions :
    /\ res' = [ op |-> "verify", err |-> Verify(FileAt(target), opts, now),
                target |-> target, opts |-> opts ]
    /\ outdir' = EmptyMap
    /\ UNCHANGED <<disk, copy, now, added, sealed, tamper, pending>>

ExtractOp(target) ==
  \E opts \in ExtractOptions :
    LET r == Extract(FileAt(target), opts, now, EmptyMap) IN
    /\ res' = [op |-> "extract", err |-> r.err, target |-> target, opts |-> opts]
    /\ outdir' = r.out
    /\ UNCHANGED <<disk, copy, now, added, sealed, tamper, pending>>

ListFilesOp(target) ==
  LET r == ListFiles(FileAt(target)) IN
  /\ res' = [op |-> "list", err |-> r.err, target |-> target, files |-> r.files]
  /\ outdir' = EmptyMap
  /\ UNCHANGED <<disk, copy, now, added, sealed, tamper, pending>>

GetInfoOp(target) ==
  LET r == GetInfo(FileAt(target), now) IN
  /\ res' = [op |-> "info", err |-> r.err, target |-> target, info |-> r.info]
  /\ outdir' = EmptyMap
  /\ UNCHANGED <<disk, copy, now, added, sealed, tamper, pending>>

\* Someone copies the sealed container to the second path, where no file
\* is yet, and modifies the copy in one place, in one of the given ways.
TamperOp(kinds) ==
  /\ ~copy.exists
  /\ readContainer(disk).err = "ok"
  /\ IsSealed(readContainer(disk).m)
  /\ \E mod \in { x \in Mods(disk) : x.kind \in kinds } :
       /\ copy' = ApplyMod(disk, mod)
       /\ tamper' = mod
  /\ res' = [op |-> "tamper", err |-> "ok"]
  /\ outdir' = EmptyMap
  /\ UNCHANGED <<disk, now, added, sealed, pending>>

\* The engine run one operation at a time against the container path, with
\* no I/O failure.
Next ==
  \/ Tick
  \/ CreateOp(NoFaults)
  \/ AddOp(NoFaults)
  \/ SealOp(NoFaults)
  \/ VerifyOp("disk")
  \/ ExtractOp("disk")
  \/ ListFilesOp("disk")
  \/ GetInfoOp("disk")

Spec == Init /\ [][Next]_vars

\* The engine where a write may stop at any point and the random source may
\* fail.
FaultsNext ==
  \/ CreateOp(AllFaults)
  \/ AddOp(AllFaults)
  \/ SealOp(AllFaults)
  \/ VerifyOp("disk")

SpecFaults == Init /\ [][FaultsNext]_vars

\* The containers Create, Add and Seal produce at time 0 without failure,
\* with the history of the calls that made them.
SealedRuns ==
  { r \in [filePaths : FileLists, opts : SealOptions, salt : Salts, nonce : Nonces] :
      Len(r.filePaths) > 0 /\ \A i \in 1..Len(r.filePaths) : r.filePaths[i].readable }

SealedContainer(r) ==
  LET created == Create(NoFile, TRUE, 0, "none").disk
      filled == Add(created, r.filePaths, "none").disk
  IN Seal(filled, r.opts, 0, r.salt, r.nonce, "none").disk

TamperInit ==
  \E r \in SealedRuns :
    /\ disk = SealedContainer(r)
    /\ copy = NoFile
    /\ now = 0
    /\ res = [op |-> "seal", err |-> "ok"]
    /\ outdir = EmptyMap
    /\ added = r.filePaths
    /\ sealed = Some(r.opts)
    /\ tamper = NoMod
    /\ pending = None

\* A sealed container is copied, the copy is modified in one place and
\* Verify is run on the copy.
TamperNext ==
  \/ TamperOp({"flip", "replace", "field", "malformed"})
  \/ VerifyOp("copy")

SpecTamper == TamperInit /\ [][TamperNext]_vars

\* Files whose base names meet the names Add and Seal make up: a name
\* Add's numbering produces, a name with the suffix Seal appends, and the
\* name of the container file itself.
ContainerName == <<"c", ".", "i", "m", "f">>
NamedFiles ==
  { [dir |-> "x", base |-> <<"a">>, data |-> <<0>>, readable |-> TRUE],
    [dir |-> "x", base |-> <<"a", "_", "1">>, data |-> <<1>>, readable |-> TRUE],
    [dir |-> "x", base |-> <<"a", ".", "e", "n", "c">>, data |-> <<0, 1>>, readable |-> TRUE],
    [dir |-> "x", base |-> ContainerName, data |-> <<1, 1>>, readable |-> TRUE] }
NamedLists == UNION { [1..n -> NamedFiles] : n \in 1..2 }
NamedSealOptions ==
  [ privateKey : PrivateKeys, embedPubKey : {TRUE}, passphrase : Passphrases,
    expiresAt : {None} ]

\* A file that is not an archive: os.WriteFile has put other bytes at the
\* path, and no member and no directory can be read from them.
PlainFile == [exists |-> TRUE, manifest |-> None, entries |-> EmptyMap, dir |-> FALSE]

AddNamedOp ==
  \E filePaths \in NamedLists :
    LET r == Add(disk, filePaths, "none") IN
    /\ EntryCount + Len(filePaths) <= MaxNamed
    /\ disk' = r.disk
    /\ res' = [op |-> "add", err |-> r.err]
    /\ outdir' = EmptyMap
    /\ added' = IF r.err = "ok" THEN added \o filePaths ELSE added
    /\ UNCHANGED <<copy, now, sealed, tamper, pending>>

SealNamedOp ==
  \E opts \in NamedSealOptions, salt \in Salts, nonce \in Nonces :
    LET r == Seal(disk, opts, now, salt, nonce, "none") IN
    /\ disk' = r.disk
    /\ res' = [op |-> "seal", err |-> r.err]
    /\ outdir' = EmptyMap
    /\ sealed' = IF r.err = "ok" THEN Some(opts) ELSE sealed
    /\ UNCHANGED <<copy, now, added, tamper, pending>>

\* Extract with OutputDir the directory the container file is in (the
\* command's default is "."): Extract has the container's bytes in memory
\* by then, and os.WriteFile replaces whatever file has the name it is
\* given, the container file included. outdir holds the files written.
ExtractHereOp ==
  \E opts \in ExtractOptions :
    LET r == Extract(disk, opts, now, EmptyMap) IN
    /\ res' = [op |-> "extract", err |-> r.err, target |-> "disk", opts |-> opts]
    /\ outdir' = r.out
    /\ disk' = IF ContainerName \in DOMAIN r.out THEN PlainFile ELSE disk
    /\ UNCHANGED <<copy, now, added, sealed, tamper, pending>>

\* The engine with files of any name, no failure and a clock that stands
\* still.
NamesNext ==
  \/ CreateOp(NoFaults)
  \/ AddNamedOp
  \/ SealNamedOp
  \/ VerifyOp("disk")
  \/ ListFilesOp("disk")
  \/ GetInfoOp("disk")
  \/ ExtractHereOp

SpecNames == Init /\ [][NamesNext]_vars

\* Add up to the point where it writes: the caller now holds the manifest
\* and the members in memory; the engine takes no lock on the file.
AddReadOp ==
  /\ pending = None
  /\ \E filePaths \in FileLists :
       LET held == AddRead(disk, filePaths) IN
       /\ EntryCount + Len(filePaths) <= MaxFiles
       /\ pending' = IF held.err = "ok"
                       THEN Some([held |-> held, filePaths |-> filePaths])
                       ELSE None
       /\ res' = IF held.err = "ok" THEN [op |-> "add_read", err |-> "ok"]
                                    ELSE [op |-> "add", err |-> held.err]
  /\ outdir' = EmptyMap
  /\ UNCHANGED <<disk, copy, now, added, sealed, tamper>>

\* The rest of that Add: rewriteContainer with what was read before.
AddWriteOp ==
  /\ pending # None
  /\ LET r == AddWrite(disk, Val(pending).held, "none") IN
     /\ disk' = r.disk
     /\ res' = [op |-> "add", err |-> r.err]
     /\ added' = IF r.err = "ok" THEN added \o Val(pending).filePaths ELSE added
  /\ pending' = None
  /\ outdir' = EmptyMap
  /\ UNCHANGED <<copy, now, sealed, tamper>>

\* Two callers on one container path: one runs Add, the other Create and
\* Seal, and the second may run between the read and the write of the
\* first.
RaceNext ==
  \/ CreateOp(NoFaults)
  \/ AddReadOp
  \/ AddWriteOp
  \/ SealOp(NoFaults)

SpecRace == Init /\ [][RaceNext]_vars

\* The file entries a caller of Manifest.AddFile passes: made as Add makes
\* them, with a path of its own choice.
EntryInputs ==
  { [ path |-> filesDir \o p,
      original_name |-> f.base,
      original_size |-> Len(f.data),
      sha256 |-> Hex(HashSHA256(f.data)),
      encrypted_sha256 |-> None ] :
      f \in { x \in SrcFiles : x.readable }, p \in {<<"a">>, <<"a", "_", "1">>, <<"b">>} }

\* The values a manifest's Signature field may hold when its signable
\* bytes are asked for.
SignatureInputs(m) ==
  {None, m.signature, Some(Sign(StrangerKey, SignableBytes(m)))}

\* Manifest.AddFile called on the manifest read from the container.
AddFileOp ==
  /\ readContainer(disk).err = "ok"
  /\ \E entry \in EntryInputs :
       LET m == readContainer(disk).m
           r == AddFile(m, entry)
       IN res' = [op |-> "addfile", err |-> r.err, m |-> m, entry |-> entry, after |-> r.m]
  /\ outdir' = EmptyMap
  /\ UNCHANGED <<disk, copy, now, added, sealed, tamper, pending>>

\* Manifest.SignableBytes called on the manifest read from the container,
\* with one of the signature values; `after` is the receiver afterwards.
SignableBytesOp ==
  /\ readContainer(disk).err = "ok"
  /\ \E sig \in SignatureInputs(readContainer(disk).m) :
       LET m == [readContainer(disk).m EXCEPT !.signature = sig] IN
       res' = [op |-> "signable", err |-> "ok", m |-> m, bytes |-> SignableBytes(m),
               after |-> m]
  /\ outdir' = EmptyMap
  /\ UNCHANGED <<disk, copy, now, added, sealed, tamper, pending>>

\* The manifest package applied to the manifests the engine writes.
ManifestNext ==
  \/ CreateOp(NoFaults)
  \/ AddOp(NoFaults)
  \/ SealOp(NoFaults)
  \/ AddFileOp
  \/ SignableBytesOp

SpecManifest == Init /\ [][ManifestNext]_vars

\* The modified copy's manifest member rewritten once more, with state
\* open: the copy is then an open container whose entries and members are
\* whatever the modification left.
ReopenOp ==
  /\ tamper.kind \in {"replace", "field"}
  /\ readContainer(copy).err = "ok"
  /\ IsSealed(readContainer(copy).m)
  /\ copy' = [copy EXCEPT !.manifest =
                Some(Member(Marshal([readContainer(copy).m EXCEPT !.state = StateOpen])))]
  /\ tamper' = [kind |-> "reopen", first |-> tamper]
  /\ res' = [op |-> "tamper", err |-> "ok"]
  /\ outdir' = EmptyMap
  /\ UNCHANGED <<disk, now, added, sealed, pending>>

\* A sealed container is copied, the copy is modified and Extract is run on
\* the copy.
ExtractNext ==
  \/ TamperOp({"flip", "replace", "field"})
  \/ ReopenOp
  \/ ExtractOp("copy")

SpecExtract == TamperInit /\ [][ExtractNext]_vars

(***************************************************************************)
(* Properties.                                                             *)
(***************************************************************************)
\* The manifest member on disk, as written, says state sealed.
OnDiskSealed ==
  /\ IsSome(disk.manifest)
  /\ Val(disk.manifest).body.obj["state"] = StateSealed

\* The key that verifies the signature the successful Seal made.
SignerKey == Public(Val(sealed).privateKey)

\* Verify has just been run on the modified copy.
VerifiedCopy == res.op = "verify" /\ res.target = "copy"

\* C1: whatever single bit of a sealed archive's stored bytes is flipped -
\* in the manifest member, a file member, the .sealed marker or
\* keyring/public.key - Verify on the modified archive returns an error.
C1_TamperEvidence ==
  VerifiedCopy /\ tamper.kind = "flip" => res.err # "ok"

C3_SealedRejectsAddSeal ==
  [][OnDiskSealed /\ res'.op \in {"add", "seal"} => res'.err # "ok" /\ disk' = disk]_vars

C3_Witness == OnDiskSealed /\ res.op = "add" /\ res.err = "already_sealed"

\* C4: after Add calls and a Seal, Extract with the seal-time passphrase on
\* a container that has not expired succeeds, and the output directory holds
\* the bytes of every file that was added.
C4_RoundTrip ==
  ( /\ res.op = "extract"
    /\ IsSome(sealed)
    /\ res.opts.passphrase = Val(sealed).passphrase
    /\ ~IsExpired(readContainer(disk).m, now) )
  => /\ res.err = "ok"
     /\ \A i \in 1..Len(added) :
          \E name \in DOMAIN outdir : outdir[name] = added[i].data

\* C5: a sealed manifest changed in one field other than signature, with
\* the signature kept, fails the signature check, and Verify with the
\* signer's key and ignoreExpiry returns an error.
C5_SignatureCoverage ==
  VerifiedCopy /\ tamper.kind = "field"
  => /\ ~CryptoVerify(SignerKey, SignableBytes(tamper.m), Val(tamper.m.signature))
     /\ ( res.opts.publicKey = Some(SignerKey) /\ res.opts.ignoreExpiry
          => res.err # "ok" )

C5_Witness ==
  /\ VerifiedCopy
  /\ tamper.kind = "field"
  /\ tamper.field = "expires_at"
  /\ res.opts.publicKey = Some(SignerKey)
  /\ res.opts.ignoreExpiry
  /\ res.err = "bad_signature"

\* C6: after a successful Seal the signature on disk is valid for the
\* signer's key over the signable bytes of the manifest on disk, and Verify
\* succeeds with that key, and with no key when the key was embedded,
\* whenever the container has not expired or expiry is ignored.
C6_SignatureValid ==
  IsSome(sealed) =>
    LET rc == readContainer(disk) IN
    /\ rc.err = "ok"
    /\ IsSome(rc.m.signature)
    /\ CryptoVerify(SignerKey, SignableBytes(rc.m), Val(rc.m.signature))
    /\ \A o \in VerifyOptions :
         ( /\ \/ o.publicKey = Some(SignerKey)
              \/ (o.publicKey = None /\ Val(sealed).embedPubKey)
           /\ (o.ignoreExpiry \/ ~IsExpired(rc.m, now)) )
         => Verify(disk, o, now) = "ok"

C6_Witness ==
  /\ IsSome(sealed)
  /\ Val(sealed).passphrase # ""
  /\ IsSome(Val(sealed).expiresAt)
  /\ res.op = "verify"
  /\ res.opts.publicKey = None
  /\ res.err = "ok"

\* C7: Verify succeeds only if every file entry's member hashes to the
\* value the manifest records for it: encrypted_sha256 in an encrypted
\* container, sha256 in an unencrypted one.
C7_VerifyHashesEveryFile ==
  VerifiedCopy /\ res.err = "ok" =>
    LET m == readContainer(copy).m IN
    \A i \in 1..Len(m.files) :
      /\ m.files[i].path \in DOMAIN copy.entries
      /\ Hex(HashSHA256(copy.entries[m.files[i].path].body))
           = IF IsSome(m.encryption) THEN m.files[i].encrypted_sha256
                                     ELSE m.files[i].sha256

\* C8: when the rewrite of Add or Seal fails after it was started, the
\* container path still holds a valid archive.
C8_AtomicRewrite ==
  res.op \in {"add", "seal"} /\ res.err = "io" => readContainer(disk).err = "ok"

\* C9: a Seal that fails before the rewrite leaves the file at the container
\* path as it was; on an open container without files it fails with "empty"
\* (or with the salt error, when the random source fails first), the
\* manifest records nothing of the failed call and Add still succeeds.
OpenAndEmpty(ar) ==
  LET rc == readContainer(ar) IN
  rc.err = "ok" /\ ~IsSealed(rc.m) /\ Len(rc.m.files) = 0

C9_FailedSealChangesNothing ==
  [][ res'.op = "seal" =>
        /\ (res'.err \notin {"ok", "io"} => disk' = disk)
        /\ ( OpenAndEmpty(disk) =>
               /\ res'.err \in {"empty", "salt"}
               /\ OpenAndEmpty(disk')
               /\ LET m == readContainer(disk').m IN
                  m.encryption = None /\ m.expires_at = None /\ m.public_key = None
               /\ \A f \in { x \in SrcFiles : x.readable } :
                    Add(disk', <<f>>, "none").err = "ok" ) ]_vars

C9_Witness ==
  /\ res.op = "seal"
  /\ res.err = "encrypt"
  /\ readContainer(disk).err = "ok"
  /\ ~IsSealed(readContainer(disk).m)
  /\ added # <<>>

\* C10: a file that is a strict prefix of an archive the engine wrote - what
\* a stopped write left at the container path, or a sealed container cut
\* short at any point - is rejected by Verify under every option.
StrictPrefix(ar) == ar.exists /\ ~ar.dir

OnDiskManifest == readContainer(disk).m

\* Verify or Extract has just been run on the sealed container on disk.
RanOnSealed(op) == res.op = op /\ res.target = "disk" /\ IsSome(sealed)

\* expires_at is set and the clock is strictly after it.
PastExpiry ==
  /\ IsSome(OnDiskManifest.expires_at)
  /\ now > Val(OnDiskManifest.expires_at)

\* C11: on a sealed container Verify and Extract return Expired exactly
\* when expires_at is set, the clock is strictly after it and ignoreExpiry
\* is false; otherwise they succeed given the signer's key (Verify) or the
\* seal-time passphrase (Extract).
C11_ExpiryGate ==
  /\ RanOnSealed("verify") =>
       /\ res.err = "expired" <=> (PastExpiry /\ ~res.opts.ignoreExpiry)
       /\ ( res.err # "expired" /\ res.opts.publicKey = Some(SignerKey)
            => res.err = "ok" )
  /\ RanOnSealed("extract") =>
       /\ res.err = "expired" <=> (PastExpiry /\ ~res.opts.ignoreExpiry)
       /\ ( res.err # "expired" /\ res.opts.passphrase = Val(sealed).passphrase
            => res.err = "ok" )

C11_Witness ==
  /\ RanOnSealed("extract")
  /\ PastExpiry
  /\ ~res.opts.ignoreExpiry
  /\ res.opts.passphrase = Val(sealed).passphrase
  /\ res.err = "expired"

\* C12: Extract on an encrypted sealed container with a passphrase other
\* than the seal-time one, or with none, returns an error and leaves the
\* output directory empty.
C12_WrongPassphrase ==
  ( /\ RanOnSealed("extract")
    /\ Val(sealed).passphrase # ""
    /\ res.opts.passphrase # Val(sealed).passphrase )
  => res.err # "ok" /\ outdir = EmptyMap

C12_Witness ==
  /\ RanOnSealed("extract")
  /\ Val(sealed).passphrase # ""
  /\ res.opts.passphrase = WrongPassphrase
  /\ Len(added) = 2
  /\ res.err = "decrypt"

\* C13: a successful Extract writes every file entry to a file of its own,
\* so that the bytes of every entry are in the output directory, also when
\* two entries have the same original_name.
C13_ExtractKeepsEveryEntry ==
  res.op = "extract" /\ res.err = "ok" =>
    \A i \in 1..Len(OnDiskManifest.files) :
      \E name \in DOMAIN outdir : outdir[name] = added[i].data

\* C14: Verify checks the signature with the supplied key when one is
\* supplied, also when the container embeds the signer's key; with none
\* supplied it uses the embedded key; with neither it fails with "no_key".
C14_KeyChoice ==
  RanOnSealed("verify") /\ (res.opts.ignoreExpiry \/ ~PastExpiry) =>
    LET supplied == res.opts.publicKey
        embedded == OnDiskManifest.public_key
    IN
    /\ IsSome(supplied) =>
         res.err = IF Val(supplied) = SignerKey THEN "ok" ELSE "bad_signature"
    /\ ~IsSome(supplied) /\ IsSome(embedded) =>
         res.err = "ok" /\ embedded = Some(SignerKey)
    /\ ~IsSome(supplied) /\ ~IsSome(embedded) => res.err = "no_key"

C14_Witness ==
  /\ RanOnSealed("verify")
  /\ Val(sealed).embedPubKey
  /\ res.opts.publicKey = Some(Public(StrangerKey))
  /\ res.err = "bad_signature"

\* C15: Create on the container path when a file exists there returns
\* "exists" and leaves the file as it was; Create on a path without the
\* .imf extension returns "bad_extension" and creates no file.
C15_CreateRejects ==
  [][ res'.op = "create" =>
        /\ disk.exists => res'.err \in {"exists", "bad_extension"} /\ disk' = disk
        /\ res'.err = "bad_extension" => disk' = disk
        /\ \A f \in CreateFaults :
             /\ Create(disk, FALSE, now, f) = [err |-> "bad_extension", disk |-> disk]
             /\ disk.exists => Create(disk, TRUE, now, f) = [err |-> "exists", disk |-> disk]
    ]_vars

C15_Witness ==
  /\ res.op = "create"
  /\ res.err = "exists"
  /\ ~OnDiskSealed
  /\ added # <<>>

\* C16: after a Create that returned success the path holds an archive whose
\* only member is manifest.json, in state open, without files, sealed_at,
\* signature, expires_at, encryption or public_key.
C16_CreateResult ==
  res.op = "create" /\ res.err = "ok" =>
    /\ ZipOpens(disk)
    /\ DOMAIN disk.entries = {}
    /\ readContainer(disk).err = "ok"
    /\ LET m == readContainer(disk).m IN
       /\ m.state = StateOpen
       /\ m.files = <<>>
       /\ m.sealed_at = None /\ m.signature = None /\ m.expires_at = None
       /\ m.encryption = None /\ m.public_key = None

\* The file at the container path is a complete archive with a manifest
\* that decodes.
Readable == readContainer(disk).err = "ok"

\* C17 (I1): in every archive Create, Add or Seal wrote, the manifest state
\* is sealed iff the archive has a .sealed member iff signature is set iff
\* sealed_at is set.
C17_SealedFourfold ==
  Readable =>
    LET m == OnDiskManifest IN
    /\ IsSealed(m) <=> sealedMarker \in DOMAIN disk.entries
    /\ IsSealed(m) <=> IsSome(m.signature)
    /\ IsSealed(m) <=> IsSome(m.sealed_at)

C17_Witness ==
  /\ Readable
  /\ IsSealed(OnDiskManifest)
  /\ sealedMarker \in DOMAIN disk.entries
  /\ IsSome(OnDiskManifest.sealed_at)
  /\ res.op = "seal"
  /\ res.err = "ok"

\* C18 (I3): in every archive Create, Add or Seal wrote, the members are
\* manifest.json, .sealed iff the manifest is sealed, keyring/public.key iff
\* public_key is set, and one member at the path of every file entry -
\* no others.
FilePaths(m) == { m.files[i].path : i \in 1..Len(m.files) }

C18_MemberNames ==
  Readable =>
    LET m == OnDiskManifest IN
    /\ IsSome(disk.manifest)
    /\ DOMAIN disk.entries =
         FilePaths(m)
           \cup (IF IsSealed(m) THEN {sealedMarker} ELSE {})
           \cup (IF IsSome(m.public_key) THEN {pubKeyPath} ELSE {})
    /\ FilePaths(m) \cap {manifestPath, sealedMarker, pubKeyPath} = {}

C18_Witness ==
  /\ Readable
  /\ IsSealed(OnDiskManifest)
  /\ IsSome(OnDiskManifest.encryption)
  /\ IsSome(OnDiskManifest.public_key)
  /\ Len(OnDiskManifest.files) = 2
  /\ Cardinality(DOMAIN disk.entries) = 4

\* C19 (I2): after any sequence of Add and Seal calls the paths of the
\* manifest's file entries are pairwise distinct.
C19_DistinctPaths ==
  Readable =>
    LET files == OnDiskManifest.files IN
    \A i, j \in 1..Len(files) : i # j => files[i].path # files[j].path

C19_Witness ==
  /\ Readable
  /\ IsSealed(OnDiskManifest)
  /\ IsSome(OnDiskManifest.encryption)
  /\ Len(OnDiskManifest.files) = 2
  /\ OnDiskManifest.files[1].original_name = OnDiskManifest.files[2].original_name
  /\ OnDiskManifest.files[1].path # OnDiskManifest.files[2].path

\* C20 (I4): in every manifest the engine wrote, no file entry has an
\* encrypted_sha256 when there is no encryption section, every file entry
\* has one when there is, and an open manifest has no encryption section.
C20_EncryptedHashes ==
  Readable =>
    LET m == OnDiskManifest IN
    /\ ~IsSome(m.encryption) =>
         \A i \in 1..Len(m.files) : ~IsSome(m.files[i].encrypted_sha256)
    /\ IsSome(m.encryption) =>
         \A i \in 1..Len(m.files) : IsSome(m.files[i].encrypted_sha256)
    /\ ~IsSealed(m) => ~IsSome(m.encryption)

C20_Witness ==
  /\ Readable
  /\ IsSome(OnDiskManifest.encryption)
  /\ Len(OnDiskManifest.files) > 0
  /\ IsSome(OnDiskManifest.files[1].encrypted_sha256)

\* C30: Add is all-or-nothing. Whatever the container path holds, an Add
\* call whose list has a file that cannot be read returns an error and
\* leaves the file at the container path as it was, so none of the files of
\* the call - those listed before the unreadable one included - is in the
\* manifest or in the archive.
C30_AddAllOrNothing ==
  \A filePaths \in FileLists, fault \in WriteFaults :
    (\E i \in 1..Len(filePaths) : ~filePaths[i].readable) =>
      LET r == Add(disk, filePaths, fault) IN
      /\ r.err # "ok"
      /\ r.disk = disk

\* An Add naming an unreadable file has just failed on an open container
\* that already holds an entry.
C30_Witness ==
  /\ res = [op |-> "add", err |-> "unreadable"]
  /\ EntryCount = 1
  /\ \E filePaths \in FileLists :
       /\ Len(filePaths) = 2 /\ filePaths[1].readable /\ ~filePaths[2].readable
       /\ Add(disk, filePaths, "none").err = "unreadable"

\* C24: GetInfo and ListFiles report the manifest on disk. After Create, n
\* files added and a successful Seal, GetInfo returns state sealed,
\* fileCount n, encrypted true iff the passphrase given to Seal was not
\* empty, hasPubKey true iff embedPubKey was set, expiresAt set (to the
\* time given) iff an expiry was given, and expired true iff expiresAt is
\* set and strictly before the current time; before Seal it returns state
\* open. ListFiles returns one item per file entry, in manifest order, with
\* the name, size and hash recorded when the file was added.
C24_InfoAndList ==
  /\ res.op = "info" /\ res.err = "ok" =>
       LET info == Val(res.info) IN
       /\ info.FileCount = Len(added)
       /\ info.CreatedAt = OnDiskManifest.created_at
       /\ info.SealedAt = OnDiskManifest.sealed_at
       /\ IF IsSome(sealed)
            THEN /\ info.State = StateSealed
                 /\ info.Encrypted <=> Val(sealed).passphrase # ""
                 /\ info.HasPubKey <=> Val(sealed).embedPubKey
                 /\ info.ExpiresAt = Val(sealed).expiresAt
                 /\ info.Expired <=> IsSome(info.ExpiresAt) /\ Val(info.ExpiresAt) < now
            ELSE /\ info.State = StateOpen
                 /\ ~info.Encrypted /\ ~info.HasPubKey /\ ~info.Expired
                 /\ info.ExpiresAt = None
  /\ res.op = "list" /\ res.err = "ok" =>
       /\ Len(res.files) = Len(OnDiskManifest.files)
       /\ Len(res.files) = Len(added)
       /\ \A i \in 1..Len(res.files) :
            /\ res.files[i].OriginalName = OnDiskManifest.files[i].original_name
            /\ res.files[i].OriginalName = added[i].base
            /\ res.files[i].OriginalSize = Len(added[i].data)
            /\ res.files[i].SHA256 = Hex(HashSHA256(added[i].data))

\* GetInfo has just reported a sealed, encrypted container of two files
\* with an embedded key, whose expiry has passed.
C24_Witness ==
  /\ res.op = "info" /\ res.err = "ok"
  /\ IsSome(sealed)
  /\ Val(res.info).State = StateSealed
  /\ Val(res.info).FileCount = 2
  /\ Val(res.info).Encrypted
  /\ Val(res.info).HasPubKey
  /\ Val(res.info).Expired

\* The checks of Verify on the manifest m, each stated on its own.
ExpiryBlocks(m, opts, t) ==
  IsSome(m.expires_at) /\ t > Val(m.expires_at) /\ ~opts.ignoreExpiry
HasVerifyKey(m, opts) == IsSome(opts.publicKey) \/ IsSome(m.public_key)
SignatureAccepted(m, opts) ==
  /\ IsSome(m.signature)
  /\ CryptoVerify(IF IsSome(opts.publicKey) THEN Val(opts.publicKey) ELSE Val(m.public_key),
                  SignableBytes(m), Val(m.signature))
FileErrors == {"missing_file", "hash_mismatch"}

\* What Verify answers for the archive ar, given the order NotSealed,
\* Expired, NoVerifyKey, SignatureInvalid, then the files.
VerifyInOrder(ar, opts, t) ==
  LET m == readContainer(ar).m
      v == Verify(ar, opts, t)
      en == readZipEntries(ar, {manifestPath, sealedMarker, pubKeyPath})
  IN
  readContainer(ar).err = "ok" =>
    /\ v = "not_sealed" <=> m.state # StateSealed
    /\ v = "expired" <=> m.state = StateSealed /\ ExpiryBlocks(m, opts, t)
    /\ v = "no_key" <=>
         m.state = StateSealed /\ ~ExpiryBlocks(m, opts, t) /\ ~HasVerifyKey(m, opts)
    /\ v = "bad_signature" <=>
         /\ m.state = StateSealed /\ ~ExpiryBlocks(m, opts, t) /\ HasVerifyKey(m, opts)
         /\ ~SignatureAccepted(m, opts)
    /\ v \in FileErrors <=>
         /\ m.state = StateSealed /\ ~ExpiryBlocks(m, opts, t) /\ HasVerifyKey(m, opts)
         /\ SignatureAccepted(m, opts)
         /\ en.err = "ok"
         /\ \E i \in 1..Len(m.files) : VerifyFile(m.files[i], en.entries) # "ok"
    /\ v \in FileErrors =>
         \E i \in 1..Len(m.files) :
           /\ VerifyFile(m.files[i], en.entries) = v
           /\ \A j \in 1..(i - 1) : VerifyFile(m.files[j], en.entries) = "ok"

\* C29: Verify applies its checks in a fixed order and reports the first
\* that fails: NotSealed, then Expired (unless ignoreExpiry), then
\* NoVerifyKey, then SignatureInvalid, then the files in manifest order.
\* An expired container with an invalid signature reports Expired, an open
\* one reports NotSealed whatever else is wrong, and a file error is
\* reported only once the signature has been accepted. Stated of the sealed
\* container and of every modified copy, for every option and clock value
\* (a state Verify has just run in holds the files of the state before it).
C29_VerifyOrder ==
  res.op # "verify" =>
    \A opts \in VerifyOptions, t \in 0..(MaxTime + 1) :
      VerifyInOrder(IF copy.exists THEN copy ELSE disk, opts, t)

\* Verify has just reported SignatureInvalid for a copy one of whose file
\* entries was changed so that its hash check fails too.
C29_Witness ==
  /\ VerifiedCopy
  /\ res.err = "bad_signature"
  /\ tamper.kind = "field" /\ tamper.field = "files"
  /\ LET m == readContainer(copy).m
         en == readZipEntries(copy, {manifestPath, sealedMarker, pubKeyPath})
     IN \E i \in 1..Len(m.files) : VerifyFile(m.files[i], en.entries) = "hash_mismatch"

\* C23: when an encrypted container is extracted, the decryption key is
\* derived from the passphrase with the salt and the iterations value the
\* manifest's encryption section records, not with an iteration count
\* built into the reader. Stated of every readable copy that has an
\* encryption section.
C23_KeyFromManifest ==
  LET rc == readContainer(copy) IN
  copy.exists /\ rc.err = "ok" /\ IsSealed(rc.m) /\ IsSome(rc.m.encryption) =>
    \A opts \in ExtractOptions :
      opts.passphrase # "" =>
        ExtractKey(opts, rc.m) =
          pbkdf2(opts.passphrase, Val(rc.m.encryption).salt, Val(rc.m.encryption).iterations)

\* C27: Extract on a sealed container writes files only if the manifest's
\* signature is valid. For a sealed archive whose manifest was altered
\* after sealing, so that Verify with the signer's key reports
\* SignatureInvalid, Extract writes no file to the output directory,
\* whatever its options.
C27_ExtractNeedsSignature ==
  LET rc == readContainer(copy) IN
  /\ copy.exists /\ rc.err = "ok" /\ IsSealed(rc.m) /\ rc.m.version = Version
  /\ Verify(copy, [publicKey |-> Some(SignerKey), ignoreExpiry |-> TRUE], now) = "bad_signature"
  => \A opts \in ExtractOptions : Extract(copy, opts, now, EmptyMap).out = EmptyMap

\* The errors the spec calls InvalidManifest: json.Unmarshal's error and
\* "invalid manifest: missing version".
InvalidManifest == {"parsing_manifest", "invalid_manifest"}

\* Every operation on the archive ar stops with the error e: Add and Seal
\* leave the file as it is, Extract writes nothing, ListFiles and GetInfo
\* return nothing.
NoOperationProceeds(ar, e) ==
  /\ \A filePaths \in FileLists, fault \in WriteFaults :
       Add(ar, filePaths, fault) = [err |-> e, disk |-> ar]
  /\ \A opts \in SealOptions, salt \in Salts, nonce \in Nonces, fault \in SealFaults :
       Seal(ar, opts, now, salt, nonce, fault) = [err |-> e, disk |-> ar]
  /\ \A opts \in VerifyOptions : Verify(ar, opts, now) = e
  /\ \A opts \in ExtractOptions :
       Extract(ar, opts, now, EmptyMap) = [err |-> e, out |-> EmptyMap]
  /\ ListFiles(ar) = [err |-> e, files |-> <<>>]
  /\ GetInfo(ar, now) = [err |-> e, info |-> None]

\* C25: Deserialize fails with InvalidManifest when the manifest JSON is
\* malformed or its version is 0 (or absent), and with UnsupportedVersion
\* when the version is greater than 1; every engine operation on a
\* container with such a manifest fails with that error, and none of them
\* reads from it, modifies it or extracts from it. Stated of every copy
\* whose manifest member can be read.
C25_BadManifestRejected ==
  /\ res.op # "verify"
  /\ ZipOpens(copy) /\ IsSome(copy.manifest) /\ MemberReads(Val(copy.manifest))
  => LET doc == Val(copy.manifest).body
         malformed == DOMAIN doc # {"indent", "obj"}
         version == IF malformed THEN 0 ELSE Field(doc.obj, "version", 0)
         e == Unmarshal(doc).err
     IN
     /\ malformed \/ version = 0 => e \in InvalidManifest
     /\ ~malformed /\ version > Version => e = "unsupported_version"
     /\ malformed \/ version = 0 \/ version > Version => NoOperationProceeds(copy, e)

\* Verify has just refused a copy whose manifest says version 2.
C25_Witness ==
  /\ VerifiedCopy
  /\ tamper.kind = "field" /\ tamper.field = "version"
  /\ Val(copy.manifest).body.obj["version"] = 2
  /\ res.err = "unsupported_version"

\* s ends with suffix.
HasSuffix(s, suffix) ==
  Len(suffix) <= Len(s) /\ SubSeq(s, Len(s) - Len(suffix) + 1, Len(s)) = suffix

\* C21 (I6): in every sealed container Seal wrote, whatever the names of
\* the files added, every file entry's path ends in .enc if and only if the
\* manifest has an encryption section.
C21_EncSuffixIffEncrypted ==
  IsSome(sealed) /\ Readable /\ IsSealed(OnDiskManifest) =>
    \A i \in 1..Len(OnDiskManifest.files) :
      HasSuffix(OnDiskManifest.files[i].path, encSuffix) <=> IsSome(OnDiskManifest.encryption)

\* C26: ListFiles, GetInfo, Verify and Extract never change the container
\* file: for any container (open or sealed) and any options, the bytes at
\* the container path are the same before and after the call, whether it
\* succeeds or fails.
C26_ReadersLeaveContainer ==
  [][res'.op \in {"list", "info", "verify", "extract"} => disk' = disk]_vars

\* The n-th path tried for a file named base: files/<base> for n = 0,
\* files/<stem>_<n><ext> after it.
Candidate(base, n) ==
  IF n = 0 THEN filesDir \o base
  ELSE filesDir \o TrimSuffix(base, Ext(base)) \o <<"_">> \o Itoa(n) \o Ext(base)

\* The path the file gets when the paths in `taken` are in use: among
\* Cardinality(taken) + 1 different candidates one is free.
AssignedPath(taken, base) ==
  Candidate(base, CHOOSE n \in 0..Cardinality(taken) :
                    /\ Candidate(base, n) \notin taken
                    /\ \A k \in 0..(n - 1) : Candidate(base, k) \in taken)

RECURSIVE AssignedPaths(_, _)
AssignedPaths(taken, filePaths) ==
  IF filePaths = <<>> THEN <<>>
  ELSE LET p == AssignedPath(taken, Head(filePaths).base)
       IN <<p>> \o AssignedPaths(taken \cup {p}, Tail(filePaths))

\* C22: Add gives each file the in-archive path files/<basename>; if that
\* path is in use by an existing entry or by a file earlier in the same
\* call, it uses files/<stem>_<n><ext> for the smallest n >= 1 whose path
\* is not in use. The search ends, and Add on an open container never fails
\* with DuplicatePath: with readable files and no I/O failure it succeeds,
\* keeps the entries there were and appends one entry per file, in order,
\* whose member holds the file's bytes.
C22_PathAssignment ==
  Readable /\ ~IsSealed(OnDiskManifest) =>
    \A filePaths \in NamedLists :
      LET old == OnDiskManifest.files
          r == Add(disk, filePaths, "none")
          new == readContainer(r.disk).m.files
          paths == AssignedPaths(FilePaths(OnDiskManifest), filePaths)
      IN
      /\ r.err = "ok"
      /\ Len(new) = Len(old) + Len(filePaths)
      /\ SubSeq(new, 1, Len(old)) = old
      /\ \A k \in 1..Len(filePaths) :
           /\ new[Len(old) + k].path = paths[k]
           /\ new[Len(old) + k].original_name = filePaths[k].base
           /\ r.disk.entries[paths[k]].body = filePaths[k].data

\* Add has just given a third file named a the path files/a_2, files/a and
\* files/a_1 being the paths of a file named a and of a file named a_1.
C22_Witness ==
  /\ res = [op |-> "add", err |-> "ok"]
  /\ Readable
  /\ Len(added) = 3
  /\ added[1].base = <<"a">> /\ added[2].base = <<"a", "_", "1">> /\ added[3].base = <<"a">>
  /\ OnDiskManifest.files[2].path = filesDir \o <<"a", "_", "1">>
  /\ OnDiskManifest.files[3].path = filesDir \o <<"a", "_", "2">>

\* The archive ar has a manifest that reads and says sealed.
SealedArchive(ar) == readContainer(ar).err = "ok" /\ IsSealed(readContainer(ar).m)

\* C28: even when an Add and a Seal on one container path interleave (Add
\* reads the open container, Seal then completes, Add then writes), the
\* container on disk never goes from sealed back to open, and the file list
\* of a sealed container never changes.
C28_SealSurvivesRace ==
  [][SealedArchive(disk) =>
       /\ SealedArchive(disk')
       /\ readContainer(disk').m.files = readContainer(disk).m.files]_vars

\* C39: every manifest Deserialize accepts has a version in the range
\* 1..Version (exactly 1); a manifest with a negative version is rejected
\* like version 0. Stated of the manifest member of every copy.
C39_AcceptedVersionInRange ==
  ZipOpens(copy) /\ IsSome(copy.manifest) /\ MemberReads(Val(copy.manifest)) =>
    LET doc == Val(copy.manifest).body IN
    Unmarshal(doc).err = "ok" => Unmarshal(doc).m.version \in 1..Version

\* C38: Manifest.AddFile fails with AlreadySealed on a sealed manifest and
\* with DuplicatePath when an existing entry has the same path, and in both
\* cases leaves the manifest as it was; otherwise the entry becomes the
\* last element of the file list and nothing else changes.
C38_AddFileContract ==
  res.op = "addfile" =>
    LET duplicate == \E i \in 1..Len(res.m.files) : res.m.files[i].path = res.entry.path IN
    /\ res.m.state = StateSealed => res.err = "already_sealed" /\ res.after = res.m
    /\ res.m.state # StateSealed /\ duplicate => res.err = "duplicate" /\ res.after = res.m
    /\ res.m.state # StateSealed /\ ~duplicate =>
         /\ res.err = "ok"
         /\ res.after = [res.m EXCEPT !.files = res.m.files \o <<res.entry>>]

\* AddFile has just refused an entry whose path an entry of the open
\* manifest already has.
C38_Witness ==
  /\ res.op = "addfile"
  /\ res.err = "duplicate"
  /\ res.m.state = StateOpen
  /\ Len(res.m.files) = 2

\* C34: the signable bytes of a manifest are the serialization used for the
\* stored manifest.json member (two-space indented JSON) with the signature
\* field present and set to the empty string; they are the same whatever
\* the signature field holds, and computing them does not change the
\* manifest.
C34_SignableBytesForm ==
  res.op = "signable" =>
    /\ res.bytes.indent = Marshal(res.m).indent
    /\ "signature" \in DOMAIN res.bytes.obj
    /\ \A k \in DOMAIN Marshal(res.m).obj \ {"signature"} :
         k \in DOMAIN res.bytes.obj /\ res.bytes.obj[k] = Marshal(res.m).obj[k]
    /\ \A sig \in SignatureInputs(res.m) :
         SignableBytes([res.m EXCEPT !.signature = sig]) = res.bytes
    /\ res.after = res.m

\* Extract has just been run on the modified copy.
ExtractedCopy == res.op = "extract" /\ res.target = "copy"

\* C36: Extract on an open container writes each file entry's stored bytes
\* to outputDir/<original_name> with no hash, expiry or passphrase check:
\* it succeeds even when the stored bytes do not match entry.sha256, and
\* fails only if a listed member is missing. Stated of every open copy
\* whose members can be read; two entries of one original_name share one
\* output file.
C36_OpenExtractCopies ==
  /\ ExtractedCopy
  /\ readContainer(copy).err = "ok"
  /\ ~IsSealed(readContainer(copy).m)
  /\ readZipEntries(copy, {manifestPath}).err = "ok"
  => LET files == readContainer(copy).m.files
         stored == readZipEntries(copy, {manifestPath}).entries
         missing == \E i \in 1..Len(files) : files[i].path \notin DOMAIN stored
     IN
     /\ res.err = IF missing THEN "missing_file" ELSE "ok"
     /\ ~missing =>
          /\ DOMAIN outdir = { files[i].original_name : i \in 1..Len(files) }
          /\ \A i \in 1..Len(files) :
               \/ outdir[files[i].original_name] = stored[files[i].path]
               \/ \E j \in (i + 1)..Len(files) : files[j].original_name = files[i].original_name
     /\ \A opts \in ExtractOptions, t \in 0..(MaxTime + 1) :
          Extract(copy, opts, t, EmptyMap) = [err |-> res.err, out |-> outdir]

\* Extract without a passphrase has just succeeded on a copy that was
\* encrypted and then set to open: what it wrote are stored bytes that do
\* not hash to the entry's sha256.
C36_Witness ==
  /\ ExtractedCopy
  /\ res.err = "ok"
  /\ res.opts.passphrase = ""
  /\ tamper.kind = "field" /\ tamper.field = "state"
  /\ LET m == readContainer(copy).m IN
     /\ IsSome(m.encryption)
     /\ Len(m.files) = 2
     /\ \A i \in 1..2 :
          /\ Hex(HashSHA256(copy.entries[m.files[i].path].body)) # m.files[i].sha256
          /\ m.files[i].original_name \in DOMAIN outdir

\* What Extract finds for the i-th file entry of the sealed manifest m,
\* given the stored members and the key it derived.
EntryOutcome(m, stored, key, i) ==
  LET fe == m.files[i]
      dec == IF IsSome(m.encryption) THEN Decrypt(key, stored[fe.path])
             ELSE [err |-> FALSE, pt |-> stored[fe.path]]
  IN
  IF fe.path \notin DOMAIN stored THEN [err |-> "missing_file", pt |-> <<>>]
  ELSE IF dec.err THEN [err |-> "decrypt", pt |-> <<>>]
  ELSE IF Hex(HashSHA256(dec.pt)) # fe.sha256 THEN [err |-> "hash_mismatch", pt |-> <<>>]
  ELSE [err |-> "ok", pt |-> dec.pt]

\* C31: Extract on a sealed container goes through the file entries in
\* manifest order and writes a file only after its (decrypted) bytes hash
\* to entry.sha256; at the first entry whose member is missing, fails to
\* decrypt or fails the hash check it returns that error, the outputs of
\* the entries before it are written, and nothing is written for that
\* entry or a later one. Stated of every sealed copy Extract gets as far
\* as the entries of.
C31_ExtractStopsAtFirstFailure ==
  /\ ExtractedCopy
  /\ readContainer(copy).err = "ok"
  /\ IsSealed(readContainer(copy).m)
  /\ ~(IsExpired(readContainer(copy).m, now) /\ ~res.opts.ignoreExpiry)
  /\ readZipEntries(copy, {manifestPath, sealedMarker, pubKeyPath}).err = "ok"
  /\ ~(IsSome(readContainer(copy).m.encryption) /\ res.opts.passphrase = "")
  => LET m == readContainer(copy).m
         stored == readZipEntries(copy, {manifestPath, sealedMarker, pubKeyPath}).entries
         key == ExtractKey(res.opts, m)
         bad == { i \in 1..Len(m.files) : EntryOutcome(m, stored, key, i).err # "ok" }
         first == IF bad = {} THEN Len(m.files) + 1
                  ELSE CHOOSE i \in bad : \A j \in bad : i <= j
     IN
     /\ res.err = IF bad = {} THEN "ok" ELSE EntryOutcome(m, stored, key, first).err
     /\ DOMAIN outdir = { m.files[i].original_name : i \in 1..(first - 1) }
     /\ \A i \in 1..(first - 1) :
          \/ outdir[m.files[i].original_name] = EntryOutcome(m, stored, key, i).pt
          \/ \E j \in (i + 1)..(first - 1) :
               m.files[j].original_name = m.files[i].original_name

\* Extract has just stopped at the second entry of a sealed copy, whose
\* member was replaced: the first entry's file is written and holds the
\* first entry's bytes.
C31_Witness ==
  /\ ExtractedCopy
  /\ res.err = "hash_mismatch"
  /\ tamper.kind = "replace"
  /\ LET m == readContainer(copy).m IN
     /\ IsSealed(m)
     /\ Len(m.files) = 2
     /\ tamper.name = m.files[2].path
     /\ outdir = (m.files[1].original_name :> copy.entries[m.files[1].path].body)


\* The container on disk is the one a successful Seal with a passphrase
\* wrote.
SealedWithPassphrase ==
  /\ IsSome(sealed) /\ Val(sealed).passphrase # ""
  /\ Readable /\ IsSealed(OnDiskManifest)
  /\ Len(added) = Len(OnDiskManifest.files)

\* The members of the archive that are neither the marker nor the key.
FileMembers == DOMAIN disk.entries \ {sealedMarker, pubKeyPath}

\* Entry i of the sealed manifest is stored as the ciphertext of the i-th
\* file added and still describes that file's plaintext.
StoredEncrypted(m, i) ==
  LET fe == m.files[i]
      key == DeriveKey(Val(sealed).passphrase, Val(m.encryption).salt)
  IN
  /\ HasSuffix(fe.path, encSuffix)
  /\ fe.path \in DOMAIN disk.entries
  /\ Len(disk.entries[fe.path].body) = 4
  /\ Decrypt(key, disk.entries[fe.path].body) = [err |-> FALSE, pt |-> added[i].data]
  /\ fe.encrypted_sha256 = Hex(HashSHA256(disk.entries[fe.path].body))
  /\ fe.sha256 = Hex(HashSHA256(added[i].data))
  /\ fe.original_size = Len(added[i].data)

\* No member of the archive holds the bytes of a file that was added.
NoPlaintextMember ==
  \A p \in FileMembers, i \in 1..Len(added) :
    disk.entries[p].body # added[i].data

\* C32, as stated: after a successful Seal with a non-empty passphrase the
\* file members are exactly the ciphertexts at the entries' .enc paths, encrypted_sha256
\* is the hash of the stored ciphertext, sha256 and original_size describe
\* the plaintext, and no member is left at the path a file had before the
\* seal.
C32_NoPlaintextStored ==
  SealedWithPassphrase =>
    LET m == OnDiskManifest IN
    /\ IsSome(m.encryption)
    /\ FileMembers = FilePaths(m)
    /\ NoPlaintextMember
    /\ \A i \in 1..Len(m.files) :
         /\ StoredEncrypted(m, i)
         /\ TrimSuffix(m.files[i].path, encSuffix) \notin DOMAIN disk.entries



\* C32, amended: after a successful Seal with a non-empty passphrase the
\* file members are exactly the ciphertexts at the entries' .enc paths,
\* encrypted_sha256 is the hash of the stored ciphertext, sha256 and
\* original_size describe the plaintext, no member holds plaintext, and a
\* member found at the path a file had before the seal is the ciphertext of
\* another entry whose new path that is (files a and a.enc added together).
C32_NoPlaintextAfterSeal ==
  SealedWithPassphrase =>
    LET m == OnDiskManifest IN
    /\ IsSome(m.encryption)
    /\ FileMembers = FilePaths(m)
    /\ NoPlaintextMember
    /\ \A i \in 1..Len(m.files) :
         /\ StoredEncrypted(m, i)
         /\ TrimSuffix(m.files[i].path, encSuffix) \in DOMAIN disk.entries =>
              \E j \in 1..Len(m.files) :
                /\ j # i
                /\ m.files[j].path = TrimSuffix(m.files[i].path, encSuffix)
                /\ StoredEncrypted(m, j)

C32_Witness ==
  /\ SealedWithPassphrase
  /\ res.op = "seal" /\ res.err = "ok"
  /\ Len(OnDiskManifest.files) = 2
  /\ OnDiskManifest.files[2].original_name = <<"a", ".", "e", "n", "c">>
  /\ OnDiskManifest.files[1].path = filesDir \o <<"a", ".", "e", "n", "c">>


\* C33: a successful Add on an open container keeps every existing file
\* entry (same fields, same order) and every existing member's bytes,
\* appends one entry per file given, in the order given and each with its
\* file's bytes as its member, and leaves the state open and created_at
\* unchanged.
C33_AddKeepsExisting ==
  [][ (res'.op = "add" /\ res'.err = "ok") =>
        LET old == readContainer(disk).m
            new == readContainer(disk').m
            n == Len(old.files)
            k == Len(added') - Len(added)
        IN
        /\ readContainer(disk).err = "ok" /\ readContainer(disk').err = "ok"
        /\ Len(new.files) = n + k
        /\ SubSeq(new.files, 1, n) = old.files
        /\ \A p \in DOMAIN disk.entries :
             p \in DOMAIN disk'.entries /\ disk'.entries[p] = disk.entries[p]
        /\ \A j \in 1..k :
             LET fe == new.files[n + j]
                 fp == added'[Len(added) + j]
             IN
             /\ fe.original_name = fp.base
             /\ fe.original_size = Len(fp.data)
             /\ fe.sha256 = Hex(HashSHA256(fp.data))
             /\ fe.path \notin DOMAIN disk.entries
             /\ disk'.entries[fe.path] = Member(fp.data)
        /\ DOMAIN disk'.entries =
             DOMAIN disk.entries \cup { new.files[n + j].path : j \in 1..k }
        /\ new.state = StateOpen /\ old.state = StateOpen
        /\ new.created_at = old.created_at ]_vars

\* An Add of a file whose name an existing entry already has, made after
\* the clock has moved on from the creation time.
C33_Witness ==
  /\ res.op = "add" /\ res.err = "ok"
  /\ Readable
  /\ Len(OnDiskManifest.files) = 2
  /\ Len(added) = 2
  /\ added[1].base = added[2].base
  /\ now > OnDiskManifest.created_at
  /\ Cardinality(DOMAIN disk.entries) = 2


(***************************************************************************)
(* The order in which an archive's members are written, seen through the   *)
(* file a write leaves when it stops after some of them.                   *)
(***************************************************************************)
\* The orders in which a range over a Go map visits the names in S.
MapOrders(S) ==
  { f \in [1..Cardinality(S) -> S] : \A i, j \in DOMAIN f : i # j => f[i] # f[j] }

\* rewriteContainer, lines 621-651: the member names in the order of the
\* zw.Create calls - the manifest, the existing entries, the new entries.
WriteOrdersManifestLast(existing, newEntries) ==
  { e \o n \o <<manifestPath>> :
      e \in MapOrders(DOMAIN existing), n \in MapOrders(DOMAIN newEntries) }
WriteOrders(existing, newEntries) ==
  { <<manifestPath>> \o e \o n :
      e \in MapOrders(DOMAIN existing), n \in MapOrders(DOMAIN newEntries) }

\* rewriteContainer stopped after the first k members of the order: the
\* file os.Create made, holding those members and no directory.
rewriteStopped(m, existing, newEntries, order, k) ==
  LET full == FullArchive(m, existing, newEntries)
      names == { order[i] : i \in 1..k }
  IN [ exists |-> TRUE,
       manifest |-> IF manifestPath \in names THEN full.manifest ELSE None,
       entries |-> [ n \in names \ {manifestPath} |-> full.entries[n] ],
       dir |-> FALSE ]

\* Add whose write stops after k members.
AddStoppedOp ==
  \E filePaths \in FileLists :
    LET held == AddRead(disk, filePaths) IN
    /\ EntryCount + Len(filePaths) <= MaxFiles
    /\ held.err = "ok"
    /\ \E order \in WriteOrders(held.existing, held.newEntries) :
         \E k \in 0..Len(order) :
           disk' = rewriteStopped(held.m, held.existing, held.newEntries, order, k)
    /\ res' = [op |-> "add", err |-> "io"]
    /\ outdir' = EmptyMap
    /\ UNCHANGED <<copy, now, added, sealed, tamper, pending>>

\* Seal whose write stops after k members.
SealStoppedOp ==
  \E opts \in SealOptions, salt \in Salts, nonce \in Nonces :
    LET rc == readContainer(disk)
        ex == readZipEntries(disk, {manifestPath})
        im == SealInMemory(rc.m, ex.entries, opts, now, salt, nonce, "none")
    IN
    /\ rc.err = "ok" /\ ~IsSealed(rc.m) /\ ex.err = "ok" /\ im.err = "ok"
    /\ \E order \in WriteOrders(EmptyMap, im.entries) :
         \E k \in 0..Len(order) :
           disk' = rewriteStopped(im.m, EmptyMap, im.entries, order, k)
    /\ res' = [op |-> "seal", err |-> "io"]
    /\ outdir' = EmptyMap
    /\ UNCHANGED <<copy, now, added, sealed, tamper, pending>>

\* The engine where the write of Create, Add or Seal may stop after any
\* number of members.
WriteNext ==
  \/ CreateOp(AllFaults)
  \/ AddOp(NoFaults)
  \/ SealOp(NoFaults)
  \/ AddStoppedOp
  \/ SealStoppedOp

SpecWrite == Init /\ [][WriteNext]_vars

\* C37: in every archive Create, Add or Seal writes, manifest.json is the
\* first member written: the file at the container path, complete or left
\* by a write that stopped, never holds a file member, the public key or
\* the .sealed marker without holding the manifest.
C37_ManifestWrittenFirst ==
  disk.exists /\ DOMAIN disk.entries # {} => IsSome(disk.manifest)

\* A write that stopped after the manifest and some but not all of the
\* other members.
C37_Witness ==
  /\ res.op \in {"add", "seal"} /\ res.err = "io"
  /\ IsSome(disk.manifest)
  /\ DOMAIN disk.entries # {}
  /\ LET m == Unmarshal(Val(disk.manifest).body).m IN
     \E i \in 1..Len(m.files) : m.files[i].path \notin DOMAIN disk.entries


\* C35: errors while writing an archive are never swallowed: when Create,
\* Add or Seal returns nil the file at the container path is a completely
\* written archive - its members and its directory are there.
C35_WriteErrorsReported ==
  res.op \in {"create", "add", "seal"} /\ res.err = "ok" =>
    disk.exists /\ IsSome(disk.manifest) /\ disk.dir

====
